---- MODULE Spec2Model ----
(***************************************************************************)
(* A model of rantanplan (linhd-postdata/skas): the syllabifier, the       *)
(* stress assigner, the rhyme coder and the stanza-structure matcher.      *)
(*                                                                         *)
(* Strings are sequences of one-character strings, so that every regular   *)
(* expression and every str method of the source is computed character by  *)
(* character.  Python indexes are kept 0-based wherever they are part of a *)
(* value the program returns (code ids, ranks, stress offsets); only the   *)
(* positions inside TLA+ sequences are 1-based.                            *)
(***************************************************************************)
EXTENDS Integers, Sequences, FiniteSets, TLC

VARIABLES
    stressed_endings,   \* the list handed to get_rhymes (mutated in place)
    call,               \* arguments of the last get_rhymes call, or None
    repeated,           \* the last call repeated the arguments of the one before
    out,                \* what the last get_rhymes call computed, or None
    pc,                 \* the operation under way, and whether it has returned
    search_args,        \* search_structure: rhyme, rhythmical_lengths, structure_key
    search_result,      \* search_structure: the index returned, or None
    analyze_args,       \* analyze_rhyme: lines, offset
    analyze_raised,     \* analyze_rhyme: the exception that ended it, or ""
    analyze_result,     \* analyze_rhyme: the structure returned, or None
    word_args,          \* syllabify and get_word_stress: the word
    syllabify_result,   \* syllabify: the syllables and the alternatives, or None
    stress_args,        \* get_word_stress: pos and tag
    stress_raised,      \* get_word_stress: the exception that ended it, or ""
    stress_result,      \* get_word_stress: the dictionary returned, or None
    scansion_args,      \* get_scansion: the tokens of the text
    scansion_raised,    \* get_scansion: the exception that ended it, or ""
    scansion_result,    \* get_scansion: rhyme_analysis, rhythm_format and the lines returned
    letters_args,       \* rhyme_codes_to_letters: the rhyme ids of the lines
    letters_result,     \* rhyme_codes_to_letters: the letters returned or the exception, or None
    tag_args,           \* spacy_tag_to_dict: the tag
    tag_result          \* spacy_tag_to_dict: the mapping returned or the exception, or None

rhymes_vars == <<stressed_endings, call, repeated, out>>
search_vars == <<search_args, search_result>>
analyze_vars == <<analyze_args, analyze_raised, analyze_result>>
word_vars == <<word_args, syllabify_result, stress_args, stress_raised, stress_result>>
scansion_vars == <<scansion_args, scansion_raised, scansion_result>>
letters_vars == <<letters_args, letters_result>>
tag_vars == <<tag_args, tag_result>>
vars == <<stressed_endings, call, repeated, out, pc, search_args, search_result,
          analyze_args, analyze_raised, analyze_result,
          word_args, syllabify_result, stress_args, stress_raised, stress_result,
          scansion_args, scansion_raised, scansion_result,
          letters_args, letters_result, tag_args, tag_result>>

\* An optional value is a sequence of length 0 (None) or 1 (the value)
None == <<>>
Some(x) == <<x>>
The(opt) == opt[1]

\* the value of a call: what it returns, unless it raised
Return(value) == [raised |-> "", value |-> value]
Raise(exception) == [raised |-> exception, value |-> <<>>]

(***************************************************************************)
(* Characters                                                              *)
(***************************************************************************)
LOWER == <<"a","b","c","d","e","f","g","h","i","j","k","l","m","n","o","p",
           "q","r","s","t","u","v","w","x","y","z",
           "á","é","í","ó","ú","ä","ë","ï","ö","ü","ñ">>
UPPER == <<"A","B","C","D","E","F","G","H","I","J","K","L","M","N","O","P",
           "Q","R","S","T","U","V","W","X","Y","Z",
           "Á","É","Í","Ó","Ú","Ä","Ë","Ï","Ö","Ü","Ñ">>

\* str.upper() and str.lower() on one character
UpperOf == [c \in {LOWER[i] : i \in DOMAIN LOWER} |->
               UPPER[CHOOSE i \in DOMAIN LOWER : LOWER[i] = c]]
LowerOf == [c \in {UPPER[i] : i \in DOMAIN UPPER} |->
               LOWER[CHOOSE i \in DOMAIN UPPER : UPPER[i] = c]]
LowerCase == DOMAIN UpperOf
UpperCase == DOMAIN LowerOf
upper(c) == IF c \in LowerCase THEN UpperOf[c] ELSE c
lower(c) == IF c \in UpperCase THEN LowerOf[c] ELSE c
isupper(c) == c \in UpperCase

str_upper(s) == [i \in DOMAIN s |-> upper(s[i])]
str_lower(s) == [i \in DOMAIN s |-> lower(s[i])]

\* "".join(list of strings)
RECURSIVE join(_)
join(l) == IF l = <<>> THEN <<>> ELSE Head(l) \o join(Tail(l))

\* seq[i] and seq[i:] for a Python index i (negative: from the end)
PyPos(seq, i) == IF i < 0 THEN Len(seq) + i + 1 ELSE i + 1
PyFrom(seq, i) == SubSeq(seq, i + 1, Len(seq))

(***************************************************************************)
(* rhymes.py: character classes (all the expressions are compiled re.I)    *)
(***************************************************************************)
CONSONANTS == {"b","c","d","f","g","h","j","k","l","m","n","ñ","p","q","r",
               "s","t","v","w","x","y","z"}
UNSTRESSED_VOWELS == {"a","e","i","o","u"}
STRESSED_VOWELS == {"á","é","í","ó","ú","ä","ë","ï","ö","ü"}
TILDED_VOWELS == {"á","é","í","ó","ú"}
RHYME_WEAK_VOWELS == {"i","u","ï","ü"}
RHYME_STRONG_VOWELS == {"a","e","o","á","é","ó"}
VOWELS == UNSTRESSED_VOWELS \cup STRESSED_VOWELS

IsConsonant(c) == lower(c) \in CONSONANTS
IsVowel(c) == lower(c) \in VOWELS

\* TILDED_VOWELS_RE compiled without re.I: an upper-case tilded vowel is missed
TILDED_VOWELS_RE_search_case_sensitive(s) ==
    IF \E i \in DOMAIN s : s[i] \in TILDED_VOWELS
    THEN CHOOSE i \in DOMAIN s :
            /\ s[i] \in TILDED_VOWELS
            /\ \A j \in 1..(i - 1) : s[j] \notin TILDED_VOWELS
    ELSE 0

\* TILDED_VOWELS_RE.search(syllable): position of the first match, 0 if none
TILDED_VOWELS_RE_search(s) ==
    IF \E i \in DOMAIN s : lower(s[i]) \in TILDED_VOWELS
    THEN CHOOSE i \in DOMAIN s :
            /\ lower(s[i]) \in TILDED_VOWELS
            /\ \A j \in 1..(i - 1) : lower(s[j]) \notin TILDED_VOWELS
    ELSE 0

\* lines 74-83: upper-case the tilded vowel only, else the whole syllable
mark_stress(syllable) ==
    LET m == TILDED_VOWELS_RE_search(syllable)
    IN  IF m # 0 THEN [syllable EXCEPT ![m] = upper(syllable[m])]
        ELSE str_upper(syllable)

\* WEAK_VOWELS_RE.sub(r"\1", syllable, count=1)
WEAK_VOWELS_RE_sub(s) ==
    LET hit(i) == /\ i + 1 <= Len(s)
                  /\ lower(s[i]) \in RHYME_WEAK_VOWELS
                  /\ lower(s[i + 1]) \in RHYME_STRONG_VOWELS
    IN  IF \E i \in DOMAIN s : hit(i)
        THEN LET i == CHOOSE i \in DOMAIN s :
                        hit(i) /\ \A j \in 1..(i - 1) : ~hit(j)
             IN  SubSeq(s, 1, i - 1) \o SubSeq(s, i + 1, Len(s))
        ELSE s

\* str.replace(find, change): every non-overlapping occurrence, left to right
RECURSIVE replace_from(_, _, _, _)
replace_from(s, find, change, i) ==
    IF i > Len(s) THEN <<>>
    ELSE IF /\ s[i] = find[1]
            /\ i + Len(find) - 1 <= Len(s)
            /\ SubSeq(s, i, i + Len(find) - 1) = find
         THEN change \o replace_from(s, find, change, i + Len(find))
         ELSE <<s[i]>> \o replace_from(s, find, change, i + 1)
replace(s, find, change) ==
    IF \A i \in DOMAIN s : s[i] # find[1] THEN s   \* no occurrence can start
    ELSE replace_from(s, find, change, 1)

HOMOPHONES == <<
    << <<"v">>, <<"b">> >>, << <<"l","l">>, <<"y">> >>,
    << <<"z","e">>, <<"c","e">> >>, << <<"z","i">>, <<"c","i">> >>,
    << <<"q","u","i">>, <<"k","i">> >>, << <<"q","u","e">>, <<"k","e">> >>,
    << <<"g","e">>, <<"j","e">> >>, << <<"g","i">>, <<"j","i">> >> >>

\* lines 92-96: each pair in turn, lower case then upper case
RECURSIVE homophones_from(_, _)
homophones_from(s, k) ==
    IF k > Len(HOMOPHONES) THEN s
    ELSE LET find == HOMOPHONES[k][1]
             change == HOMOPHONES[k][2]
             once == replace(s, find, change)
         IN  homophones_from(
                 replace(once, str_upper(find), str_upper(change)), k + 1)

\* lines 90-97: one relaxed syllable
relax_syllable(syllable) == homophones_from(WEAK_VOWELS_RE_sub(syllable), 1)

\* GROUP_GQ_RE.sub(r"\1\2", ending)
RECURSIVE GROUP_GQ_RE_sub_from(_, _)
GROUP_GQ_RE_sub_from(s, i) ==
    IF i > Len(s) THEN <<>>
    ELSE IF /\ i + 2 <= Len(s)
            /\ lower(s[i]) \in {"q", "g"}
            /\ lower(s[i + 1]) = "u"
            /\ lower(s[i + 2]) \in {"e", "i"}
         THEN <<s[i], s[i + 2]>> \o GROUP_GQ_RE_sub_from(s, i + 3)
         ELSE <<s[i]>> \o GROUP_GQ_RE_sub_from(s, i + 1)
GROUP_GQ_RE_sub(s) == GROUP_GQ_RE_sub_from(s, 1)

\* DIPHTHONG_Y_RE.sub(r"\1i\2", ending): ([VOWELS])h?y([^VOWELS])
RECURSIVE DIPHTHONG_Y_RE_sub_from(_, _)
DIPHTHONG_Y_RE_sub_from(s, i) ==
    IF i > Len(s) THEN <<>>
    ELSE IF /\ i + 3 <= Len(s)
            /\ IsVowel(s[i])
            /\ lower(s[i + 1]) = "h"
            /\ lower(s[i + 2]) = "y"
            /\ ~IsVowel(s[i + 3])
         THEN <<s[i], "i", s[i + 3]>> \o DIPHTHONG_Y_RE_sub_from(s, i + 4)
         ELSE IF /\ i + 2 <= Len(s)
                 /\ IsVowel(s[i])
                 /\ lower(s[i + 1]) = "y"
                 /\ ~IsVowel(s[i + 2])
              THEN <<s[i], "i", s[i + 2]>> \o DIPHTHONG_Y_RE_sub_from(s, i + 3)
              ELSE <<s[i]>> \o DIPHTHONG_Y_RE_sub_from(s, i + 1)
DIPHTHONG_Y_RE_sub(s) == DIPHTHONG_Y_RE_sub_from(s, 1)

\* CONSONANTS_RE.sub(r"", ending)
CONSONANTS_RE_sub(s) == SelectSeq(s, LAMBDA c : ~IsConsonant(c))

\* DIPHTHONG_H_RE.sub(r"\1\2", ending): ([VOWELS])h([VOWELS])
RECURSIVE DIPHTHONG_H_RE_sub_from(_, _)
DIPHTHONG_H_RE_sub_from(s, i) ==
    IF i > Len(s) THEN <<>>
    ELSE IF /\ i + 2 <= Len(s)
            /\ IsVowel(s[i])
            /\ lower(s[i + 1]) = "h"
            /\ IsVowel(s[i + 2])
         THEN <<s[i], s[i + 2]>> \o DIPHTHONG_H_RE_sub_from(s, i + 3)
         ELSE <<s[i]>> \o DIPHTHONG_H_RE_sub_from(s, i + 1)
DIPHTHONG_H_RE_sub(s) == DIPHTHONG_H_RE_sub_from(s, 1)

\* INITIAL_CONSONANTS_RE.sub(r"", ending, count=1)
RECURSIVE INITIAL_CONSONANTS_RE_sub(_)
INITIAL_CONSONANTS_RE_sub(s) ==
    IF s # <<>> /\ IsConsonant(Head(s))
    THEN INITIAL_CONSONANTS_RE_sub(Tail(s)) ELSE s

\* spacy_affixes.utils.strip_accents: the diacritics of the vowels are
\* dropped, the case is kept
ACCENTED == <<"á","é","í","ó","ú","ä","ë","ï","ö","ü",
              "Á","É","Í","Ó","Ú","Ä","Ë","Ï","Ö","Ü">>
UNACCENTED == <<"a","e","i","o","u","a","e","i","o","u",
                "A","E","I","O","U","A","E","I","O","U">>
StripOf == [c \in {ACCENTED[i] : i \in DOMAIN ACCENTED} |->
               UNACCENTED[CHOOSE i \in DOMAIN ACCENTED : ACCENTED[i] = c]]
Accented == DOMAIN StripOf
strip_accent(c) == IF c \in Accented THEN StripOf[c] ELSE c
strip_accents(s) == [i \in DOMAIN s |-> strip_accent(s[i])]

(***************************************************************************)
(* rhymes.py: get_clean_codes                                              *)
(***************************************************************************)
\* lines 103-109, on the ending lines 101-102 leave
code_of(ending, assonance) ==
    strip_accents(
        IF assonance THEN CONSONANTS_RE_sub(ending)
        ELSE INITIAL_CONSONANTS_RE_sub(DIPHTHONG_H_RE_sub(ending)))

\* lines 87-109: the code string of one (already marked) ending
code_string(stressed_ending, assonance, relaxation) ==
    code_of(
        DIPHTHONG_Y_RE_sub(GROUP_GQ_RE_sub(
            IF relaxation
            THEN join([k \in DOMAIN stressed_ending |->
                          relax_syllable(stressed_ending[k])])
            ELSE join(stressed_ending))),
        assonance)

\* line 84: stressed_ending[stressed_position] = syllable, on the caller's list
store_marked(stressed_ending, stressed_position) ==
    LET p == PyPos(stressed_ending, stressed_position)
    IN  [stressed_ending EXCEPT ![p] = mark_stress(stressed_ending[p])]

\* lines 73-84 for every line: the caller's list as the loop leaves it, which
\* does not depend on assonance or relaxation
marked_endings(endings) ==
    [i \in DOMAIN endings |->
        [endings[i] EXCEPT ![1] = store_marked(endings[i][1], endings[i][3])]]

\* position (1-based) of an ending in the insertion-ordered codes dict, 0 if absent
IndexOf(seq, x) == IF \E i \in DOMAIN seq : seq[i] = x
                   THEN CHOOSE i \in DOMAIN seq : seq[i] = x ELSE 0

\* the set of ids toggled on every sight instead of discarded on reuse
record_code_toggle(acc, ending) ==
    IF IndexOf(acc.codes, ending) = 0
    THEN [acc EXCEPT !.codes = Append(@, ending),
                     !.unique = @ \cup {Len(acc.codes)},
                     !.code_numbers = Append(@, Len(acc.codes))]
    ELSE [acc EXCEPT !.unique =
                        IF IndexOf(acc.codes, ending) - 1 \in @
                        THEN @ \ {IndexOf(acc.codes, ending) - 1}
                        ELSE @ \cup {IndexOf(acc.codes, ending) - 1},
                     !.code_numbers = Append(@, IndexOf(acc.codes, ending) - 1)]

\* lines 110-115: number the code string and keep the set of ids seen once
record_code(acc, ending) ==
    IF IndexOf(acc.codes, ending) = 0
    THEN [acc EXCEPT !.codes = Append(@, ending),
                     !.unique = @ \cup {Len(acc.codes)},
                     !.code_numbers = Append(@, Len(acc.codes))]
    ELSE [acc EXCEPT !.unique = @ \ {IndexOf(acc.codes, ending) - 1},
                     !.code_numbers = Append(@, IndexOf(acc.codes, ending) - 1)]

\* lines 84-115 for line i, whose ending is `marked` once line 84 has run
clean_line(acc, i, marked, assonance, relaxation) ==
    record_code([acc EXCEPT !.stressed_endings[i][1] = marked],
                code_string(marked, assonance, relaxation))

\* lines 73-115: the loop over the lines; acc.codes[id + 1] is the code string
\* of id, acc.stressed_endings the caller's list as the loop leaves it
RECURSIVE get_clean_codes_loop(_, _, _, _)
get_clean_codes_loop(acc, i, assonance, relaxation) ==
    IF i > Len(acc.stressed_endings) THEN acc
    ELSE get_clean_codes_loop(
            clean_line(acc, i,
                       store_marked(acc.stressed_endings[i][1],
                                    acc.stressed_endings[i][3]),
                       assonance, relaxation),
            i + 1, assonance, relaxation)

\* lines 63-118: codes2endings is codes (id |-> code string, as a sequence
\* indexed by id + 1)
get_clean_codes(endings, assonance, relaxation) ==
    get_clean_codes_loop(
        [codes |-> <<>>, code_numbers |-> <<>>, unique |-> {},
         stressed_endings |-> endings],
        1, assonance, relaxation)

(***************************************************************************)
(* rhymes.py: assign_letter_codes                                          *)
(***************************************************************************)
\* the distance taken one too short
offset_exceeded_off_by_one(last_found, rhyme, index, offset) ==
    /\ rhyme \in DOMAIN last_found
    /\ offset # None
    /\ index - last_found[rhyme] - 1 > The(offset)

\* lines 142-144: the earlier occurrence is too far away
offset_exceeded(last_found, rhyme, index, offset) ==
    /\ rhyme \in DOMAIN last_found
    /\ offset # None
    /\ index - last_found[rhyme] > The(offset)

\* lines 145-148: what the code does then, to the earlier line and to this one
reassign_unrhymed(acc, rhyme) ==
    LET prev == acc.last_found[rhyme] + 1
    IN  [acc EXCEPT !.rhymes = Append([@ EXCEPT ![prev] = -1], -1),
                    !.endings = Append([@ EXCEPT ![prev] = <<>>], <<>>)]

\* lines 132-152: index is the 0-based line index
RECURSIVE assign_letter_codes_loop(_, _, _, _, _, _)
assign_letter_codes_loop(acc, index, codes, code_numbers, unrhymed_verses, offset) ==
    IF index >= Len(code_numbers) THEN acc
    ELSE LET rhyme == code_numbers[index + 1]
             letters == IF IndexOf(acc.letters, rhyme) = 0
                        THEN Append(acc.letters, rhyme) ELSE acc.letters
             rhyme_letter == IndexOf(letters, rhyme) - 1
             step ==
                IF rhyme \in unrhymed_verses
                THEN [acc EXCEPT !.rhymes = Append(@, -1),
                                 !.endings = Append(@, <<>>)]
                ELSE LET a == [acc EXCEPT !.letters = letters]
                         b == IF offset_exceeded(acc.last_found, rhyme, index, offset)
                              THEN reassign_unrhymed(a, rhyme)
                              ELSE [a EXCEPT !.rhymes = Append(@, rhyme_letter),
                                             !.endings = Append(@, codes[rhyme + 1])]
                     IN  [b EXCEPT !.last_found =
                            [r \in DOMAIN acc.last_found \cup {rhyme} |->
                                IF r = rhyme THEN index ELSE acc.last_found[r]]]
         IN  assign_letter_codes_loop(step, index + 1, codes, code_numbers,
                                      unrhymed_verses, offset)

\* lines 121-153
assign_letter_codes(codes, code_numbers, unrhymed_verses, offset) ==
    assign_letter_codes_loop(
        [letters |-> <<>>, rhymes |-> <<>>, endings |-> <<>>,
         last_found |-> <<>>],
        0, codes, code_numbers, unrhymed_verses, offset)

(***************************************************************************)
(* rhymes.py: rhyme_codes_to_letters, split_stress, get_rhymes             *)
(***************************************************************************)
\* string.ascii_letters
ascii_letters == SubSeq(LOWER, 1, 26) \o SubSeq(UPPER, 1, 26)

IndexError == "IndexError"

\* line 166: string.ascii_letters[letters[rhyme]]
letter_of(number) ==
    IF number < Len(ascii_letters) THEN ascii_letters[number + 1] ELSE IndexError

\* the number of rhymed lines before the first line of the rhyme instead
letters_by_line(rhymes, rhyme) ==
    LET first == CHOOSE i \in DOMAIN rhymes :
                    rhymes[i] = rhyme /\ \A j \in 1..(i - 1) : rhymes[j] # rhyme
    IN  Cardinality({h \in 1..(first - 1) : rhymes[h] >= 0})

\* lines 164-165: letters[rhyme] is the size of the dict when the rhyme was
\* first met, that is the number of distinct rhymes met before its first line
letters(rhymes, rhyme) ==
    LET first == CHOOSE i \in DOMAIN rhymes :
                    rhymes[i] = rhyme /\ \A j \in 1..(i - 1) : rhymes[j] # rhyme
    IN  Cardinality({rhymes[j] : j \in {h \in 1..(first - 1) : rhymes[h] >= 0}})

\* lines 160-167: the letter appended for every line
sorted_rhymes_of(rhymes, unrhymed_verse_symbol) ==
    [i \in DOMAIN rhymes |->
        IF rhymes[i] < 0 THEN unrhymed_verse_symbol
        ELSE letter_of(letters(rhymes, rhymes[i]))]

\* the letters taken from the ids of assign_letter_codes, without reordering
rhyme_codes_to_letters_no_reorder(rhymes, unrhymed_verse_symbol) ==
    [i \in DOMAIN rhymes |->
        IF rhymes[i] < 0 THEN unrhymed_verse_symbol ELSE letter_of(rhymes[i])]

\* lines 156-168: the call fails when a letter cannot be indexed
rhyme_codes_to_letters(rhymes, unrhymed_verse_symbol) ==
    LET sorted_rhymes ==
            sorted_rhymes_of(rhymes, unrhymed_verse_symbol)
    IN  IF \E i \in DOMAIN sorted_rhymes : sorted_rhymes[i] = IndexError
        THEN IndexError ELSE sorted_rhymes

\* lines 181-184: the first upper-case position, counted from the end
first_stress(ending) ==
    LET i == CHOOSE i \in DOMAIN ending :
                isupper(ending[i]) /\ \A j \in 1..(i - 1) : ~isupper(ending[j])
    IN  (i - 1) - Len(ending)

\* lines 171-186
RECURSIVE split_stress_loop(_, _, _)
split_stress_loop(endings, i, acc) ==
    IF i > Len(endings) THEN acc
    ELSE LET ending == endings[i]
             a == IF ending = <<>>
                  THEN [acc EXCEPT !.stresses = Append(@, 0)] ELSE acc
             b == IF str_lower(ending) # ending
                  THEN [a EXCEPT !.stresses = Append(@, first_stress(ending)),
                                 !.unstressed_endings =
                                     Append(@, str_lower(ending))]
                  ELSE [a EXCEPT !.unstressed_endings = Append(@, ending)]
         IN  split_stress_loop(endings, i + 1, b)

split_stress(endings) ==
    split_stress_loop(endings, 1, [stresses |-> <<>>, unstressed_endings |-> <<>>])

\* lines 213-220, given what get_clean_codes and assign_letter_codes returned
get_rhymes_result(clean, assigned, split) ==
    [codes |-> clean.codes,
     ending_codes |-> clean.code_numbers,
     unrhymed_verses |-> clean.unique,
     stressed_endings |-> clean.stressed_endings,
     rhyme_codes |-> assigned.rhymes,
     endings |-> assigned.endings,
     rhymes |-> rhyme_codes_to_letters(assigned.rhymes, "-"),
     unstressed_endings |-> split.unstressed_endings,
     stresses |-> split.stresses]

get_rhymes_assigned(clean, assigned) ==
    get_rhymes_result(clean, assigned, split_stress(assigned.endings))

get_rhymes_clean(clean, offset) ==
    get_rhymes_assigned(clean,
        assign_letter_codes(clean.codes, clean.code_numbers, clean.unique, offset))

\* lines 189-220: everything the call computes, and the caller's list after it
get_rhymes(endings, assonance, relaxation, offset) ==
    get_rhymes_clean(get_clean_codes(endings, assonance, relaxation), offset)

(***************************************************************************)
(* structures.py: the conditions on line lengths                           *)
(***************************************************************************)
\* the number of Python positions in idxs whose length is inside (lo, hi)
correct_lines(lengths, idxs, hi, lo) ==
    Cardinality({i \in idxs : hi > lengths[i + 1] /\ lengths[i + 1] > lo})

is_seguidilla_compuesta(lengths) ==
    (IF Len(lengths) = 7
     THEN correct_lines(lengths, {0, 2, 5}, 9, 5)
          + correct_lines(lengths, {1, 3, 4, 6}, 7, 3)
     ELSE 0) = Len(lengths)

is_seguidilla(lengths) ==
    (IF Len(lengths) = 4
     THEN correct_lines(lengths, {0, 2}, 9, 5)
          + correct_lines(lengths, {1, 3}, 7, 3)
     ELSE 0) = Len(lengths)

is_chamberga(lengths) ==
    (IF Len(lengths) = 10
     THEN correct_lines(lengths, {0, 2, 5, 7, 9}, 9, 5)
          + correct_lines(lengths, {1, 3}, 7, 4)
          + correct_lines(lengths, {4, 6, 8}, 6, 2)
     ELSE 0) = Len(lengths)

is_seguidilla_gitana(lengths) ==
    (IF Len(lengths) = 4
     THEN correct_lines(lengths, {0, 1, 3}, 8, 4)
          + correct_lines(lengths, {2}, 13, 9)
     ELSE 0) = Len(lengths)

is_estrofa_safica(lengths) ==
    (IF Len(lengths) = 4
     THEN correct_lines(lengths, {0, 1, 2}, 13, 8)
          + correct_lines(lengths, {3}, 7, 3)
     ELSE 0) = Len(lengths)

is_estrofa_safica_unamuno(lengths) ==
    (IF Len(lengths) = 4
     THEN correct_lines(lengths, {0, 1}, 13, 8)
          + correct_lines(lengths, {2}, 9, 5)
          + correct_lines(lengths, {3}, 7, 3)
     ELSE 0) = Len(lengths)

is_estrofa_francisco_de_la_torre(lengths) ==
    (IF Len(lengths) = 4
     THEN correct_lines(lengths, {0, 1, 2}, 13, 8)
          + correct_lines(lengths, {3}, 9, 5)
     ELSE 0) = Len(lengths)

is_endecha_real(lengths) ==
    (IF Len(lengths) % 4 = 0 /\ Len(lengths) > 7
     THEN correct_lines(lengths, {i - 1 : i \in {k \in 1..Len(lengths) : k % 4 # 0}}, 9, 5)
          + correct_lines(lengths, {i - 1 : i \in {k \in 1..Len(lengths) : k % 4 = 0}}, 13, 8)
     ELSE 0) = Len(lengths)

is_lira(lengths) ==
    (IF Len(lengths) = 5
     THEN correct_lines(lengths, {0, 2, 3}, 9, 5)
          + correct_lines(lengths, {1, 4}, 13, 8)
     ELSE 0) = Len(lengths)

is_estrofa_manriquena(lengths) ==
    (IF Len(lengths) = 6
     THEN correct_lines(lengths, {0, 1, 3, 4}, 10, 6)
          + correct_lines(lengths, {2, 5}, 6, 2)
     ELSE 0) = Len(lengths)

is_ovillejo(lengths) ==
    (IF Len(lengths) = 10
     THEN correct_lines(lengths, {0, 2, 4, 6, 7, 8, 9}, 10, 6)
          + correct_lines(lengths, {1, 3, 5}, 6, 2)
     ELSE 0) = Len(lengths)

(***************************************************************************)
(* structures.py: helpers of the length conditions                         *)
(***************************************************************************)
elements(l) == {l[i] : i \in DOMAIN l}
count_of(l, x) == Cardinality({i \in DOMAIN l : l[i] = x})
first_index(l, x) == CHOOSE i \in DOMAIN l : l[i] = x /\ \A j \in 1..(i - 1) : l[j] # x

\* Counter(l).most_common(n): y is listed before x when it occurs more often,
\* or as often and first occurs earlier (the sort is stable on insertion order)
listed_before(l, y, x) ==
    \/ count_of(l, y) > count_of(l, x)
    \/ count_of(l, y) = count_of(l, x) /\ first_index(l, y) < first_index(l, x)

most_common(l, n) ==
    [k \in 1..(IF n < Cardinality(elements(l)) THEN n ELSE Cardinality(elements(l))) |->
        CHOOSE x \in elements(l) :
            Cardinality({y \in elements(l) : listed_before(l, y, x)}) = k - 1]

\* lines 16-31; number_of_verses is None or Some(k)
most_common_lengths(lengths_list, n, number_of_verses) ==
    IF Some(Len(lengths_list)) = number_of_verses \/ number_of_verses = None
    THEN most_common(lengths_list, n)
    ELSE <<>>

\* all(x in most_common_lengths(...) for x in wanted)
all_in(wanted, common) == \A x \in wanted : x \in elements(common)

\* the bounds taken as inclusive
all_between_inclusive(lengths, hi, lo) ==
    \A i \in DOMAIN lengths : hi >= lengths[i] /\ lengths[i] >= lo

\* all(hi > length > lo for length in lengths)
all_between(lengths, hi, lo) ==
    \A i \in DOMAIN lengths : hi > lengths[i] /\ lengths[i] > lo

\* the k-th smallest element of a non-empty list (k from 1)
kth_smallest(l, k) ==
    CHOOSE x \in elements(l) :
        /\ Cardinality({i \in DOMAIN l : l[i] < x}) < k
        /\ Cardinality({i \in DOMAIN l : l[i] <= x}) >= k

\* statistics.median(lengths), doubled so that the mean of the two middle
\* values of an even-sized list stays an integer; the list is not empty
\* (statistics.median raises StatisticsError on an empty list)
median_doubled(lengths) ==
    IF Len(lengths) % 2 = 1
    THEN 2 * kth_smallest(lengths, (Len(lengths) \div 2) + 1)
    ELSE kth_smallest(lengths, Len(lengths) \div 2)
         + kth_smallest(lengths, (Len(lengths) \div 2) + 1)

DIGITS == <<"0","1","2","3","4","5","6","7","8","9">>

\* str(length) for a length >= 0
RECURSIVE str_int(_)
str_int(n) ==
    IF n < 10 THEN <<DIGITS[n + 1]>>
    ELSE str_int(n \div 10) \o <<DIGITS[(n % 10) + 1]>>

RECURSIVE join_lengths(_)
join_lengths(lengths) ==
    IF lengths = <<>> THEN <<>>
    ELSE str_int(Head(lengths)) \o join_lengths(Tail(lengths))

\* re.compile(r"(575)+").match(s): s starts with 575
haiku_match(s) == Len(s) >= 3 /\ SubSeq(s, 1, 3) = <<"5","7","5">>

\* lines 620-627: the length condition of the haiku entry
is_haiku(lengths) == haiku_match(join_lengths(lengths))

(***************************************************************************)
(* structures.py: the rhyme patterns.  A pattern is named by its regular   *)
(* expression (compiled with re.VERBOSE, so without its white space), and  *)
(* accepts(structure, s) says that the expression matches the whole of s.  *)
(***************************************************************************)
\* "." matches any character but a newline; "[^-]" any character but "-"
dot(c) == c # "\n"

\* s is `least` or more blocks of `size` characters, each of them in S
blocks_in(s, size, least, S) ==
    /\ Len(s) % size = 0
    /\ Len(s) \div size >= least
    /\ \A j \in 1..(Len(s) \div size) :
          SubSeq(s, (j - 1) * size + 1, j * size) \in S

\* s is one or more pairs of characters, the second of each pair being c and
\* the first being any character (but, when notfirst is given, not that one)
pairs_ending(s, c, notfirst) ==
    /\ Len(s) % 2 = 0
    /\ Len(s) >= 2
    /\ \A j \in 1..(Len(s) \div 2) :
          /\ s[2 * j] = c
          /\ IF notfirst = None THEN dot(s[2 * j - 1])
             ELSE s[2 * j - 1] # The(notfirst)

SEGUIDILLA == {<<"-","a","-","a">>, <<"a","b","a","b">>}
QUINTETS == {<<"a","b","a","b","a">>, <<"a","b","a","a","b">>, <<"a","b","b","a","b">>, <<"a","a","b","a","b">>, <<"a","a","b","b","a">>}
COPLAS == {<<"a","b","b","a","a","c","c","a">>, <<"a","b","a","b","b","c","c","b">>, <<"a","b","b","a","a","c","a","c">>}

accepts(structure, s) ==
    CASE structure = "(-a-a)|(abab)" -> s \in SEGUIDILLA
      [] structure = "((-a-a)|(abab))((a-a)|(b-b)|(c-c))" ->
            \E p \in SEGUIDILLA, q \in {<<"a","-","a">>, <<"b","-","b">>, <<"c","-","c">>} : s = p \o q
      [] structure = "((-a-a)|(abab))([^-]{2}){3}" ->
            /\ Len(s) = 10
            /\ SubSeq(s, 1, 4) \in SEGUIDILLA
            /\ \A i \in 5..10 : s[i] # "-"
      [] structure = "(-a-a)|(a-a-)" -> s \in {<<"-","a","-","a">>, <<"a","-","a","-">>}
      [] structure = "(-a-a){2,}" -> blocks_in(s, 4, 2, {<<"-","a","-","a">>})
      [] structure = "(abab)|(abba)|(-a-a)" -> s \in {<<"a","b","a","b">>, <<"a","b","b","a">>, <<"-","a","-","a">>}
      [] structure = "(----)|(a-a-)|(ab-b)|(abab)" ->
            s \in {<<"-","-","-","-">>, <<"a","-","a","-">>, <<"a","b","-","b">>, <<"a","b","a","b">>}
      [] structure = "(----)|(a-a-)" -> s \in {<<"-","-","-","-">>, <<"a","-","a","-">>}
      [] structure = "abcabc" -> s = <<"a","b","c","a","b","c">>
      [] structure = "(ababcc)|(aabccb)|(abcabc)" ->
            s \in {<<"a","b","a","b","c","c">>, <<"a","a","b","c","c","b">>, <<"a","b","c","a","b","c">>}
      [] structure = "(ababbcc)" -> s = <<"a","b","a","b","b","c","c">>
      [] structure = "aabbcccddc" -> s = <<"a","a","b","b","c","c","c","d","d","c">>
      [] structure = "(abba|abab|cddc|cdcd){2}((cd|ef){3}|(cde|efg){2}|[cde]{6})" ->
            /\ Len(s) = 14
            /\ blocks_in(SubSeq(s, 1, 8), 4, 2, {<<"a","b","b","a">>, <<"a","b","a","b">>, <<"c","d","d","c">>, <<"c","d","c","d">>})
            /\ \/ blocks_in(SubSeq(s, 9, 14), 2, 3, {<<"c","d">>, <<"e","f">>})
               \/ blocks_in(SubSeq(s, 9, 14), 3, 2, {<<"c","d","e">>, <<"e","f","g">>})
               \/ blocks_in(SubSeq(s, 9, 14), 1, 6, {<<"c">>, <<"d">>, <<"e">>})
      [] structure = "aa" -> s = <<"a","a">>
      [] structure = "a.a" -> Len(s) = 3 /\ s[1] = "a" /\ dot(s[2]) /\ s[3] = "a"
      [] structure = "(aba)|(-aa)" -> s \in {<<"a","b","a">>, <<"-","a","a">>}
      [] structure = "(aabccb)|(aababa)|(-aabba)" ->
            s \in {<<"a","a","b","c","c","b">>, <<"a","a","b","a","b","a">>, <<"-","a","a","b","b","a">>}
      [] structure = "(ababcc)|(aacbbc)" -> s \in {<<"a","b","a","b","c","c">>, <<"a","a","c","b","b","c">>}
      [] structure = "(aabaab)|(abcabc)|(ababab)|(abbccb)|(aababa)" ->
            s \in {<<"a","a","b","a","a","b">>, <<"a","b","c","a","b","c">>, <<"a","b","a","b","a","b">>, <<"a","b","b","c","c","b">>, <<"a","a","b","a","b","a">>}
      [] structure = "aaa" -> s = <<"a","a","a">>
      [] structure = "abba" -> s = <<"a","b","b","a">>
      [] structure = "((.)\\2){3,}" ->
            /\ Len(s) % 2 = 0
            /\ Len(s) \div 2 >= 3
            /\ \A j \in 1..(Len(s) \div 2) : dot(s[2 * j - 1]) /\ s[2 * j] = s[2 * j - 1]
      [] structure = "abab" -> s = <<"a","b","a","b">>
      [] structure = "aaaa" -> s = <<"a","a","a","a">>
      [] structure = "(abababcc)" -> s = <<"a","b","a","b","a","b","c","c">>
      [] structure = "(abbaacca)|(ababbccb)|(abbaacac)" -> s \in COPLAS
      [] structure = "(abbacddc)|(ababcdcd)|(abbacdcd)|(ababcddc)|(abbaacca)" ->
            s \in {<<"a","b","b","a","c","d","d","c">>, <<"a","b","a","b","c","d","c","d">>, <<"a","b","b","a","c","d","c","d">>, <<"a","b","a","b","c","d","d","c">>, <<"a","b","b","a","a","c","c","a">>}
      [] structure = "abbacca" -> s = <<"a","b","b","a","c","c","a">>
      [] structure = ".{8}" -> Len(s) = 8 /\ \A i \in 1..8 : dot(s[i])
      [] structure = "(abbecdde)|(ababbccb)" -> s \in {<<"a","b","b","e","c","d","d","e">>, <<"a","b","a","b","b","c","c","b">>}
      [] structure = "abbaaccddc" -> s = <<"a","b","b","a","a","c","c","d","d","c">>
      \* the two lines of alternatives concatenate; the third line is a
      \* continuation of the alternative (aabba) only
      [] structure = "((ababa)|(abaab)|(abbab)|(aabab)|(aabba))((ababa)|(abaab)|(abbab)|(aabab)|(aabba)(cdcdc)|(cdccd)|(cddcd)|(ccdcd)|(ccddc))" ->
            \E p \in QUINTETS,
               q \in {<<"a","b","a","b","a">>, <<"a","b","a","a","b">>, <<"a","b","b","a","b">>, <<"a","a","b","a","b">>, <<"a","a","b","b","a","c","d","c","d","c">>,
                      <<"c","d","c","c","d">>, <<"c","d","d","c","d">>, <<"c","c","d","c","d">>, <<"c","c","d","d","c">>} : s = p \o q
      [] structure = "ababb" -> s = <<"a","b","a","b","b">>
      [] structure = "(ababa|abaab|abbab|aabab|aabba)" -> s \in QUINTETS
      [] structure = "(-a)+" -> blocks_in(s, 2, 1, {<<"-","a">>})
      [] structure = "-a-a" -> s = <<"-","a","-","a">>
      [] structure = "((.b)+)|(([^a]a)+)" ->
            pairs_ending(s, "b", None) \/ pairs_ending(s, "a", Some("a"))
      [] structure = "((.b)+)|((.a)+)" ->
            pairs_ending(s, "b", None) \/ pairs_ending(s, "a", None)
      [] structure = ".*" -> \A i \in DOMAIN s : dot(s[i])
      [] structure = "(a-a)" -> s = <<"a","-","a">>
      [] structure = "(abbaacccaa)" -> s = <<"a","b","b","a","a","c","c","c","a","a">>
      [] structure = ".{7}" -> Len(s) = 7 /\ \A i \in 1..7 : dot(s[i])
      [] structure = ".{9}" -> Len(s) = 9 /\ \A i \in 1..9 : dot(s[i])

\* re.match: the expression matches a prefix of the string
prefix_match(structure, rhyme) ==
    \E p \in 0..Len(rhyme) : accepts(structure, SubSeq(rhyme, 1, p))

\* re.compile(structure, re.VERBOSE).fullmatch(rhyme)
fullmatch(structure, rhyme) == accepts(structure, rhyme)

ASSONANT_RHYME == "assonant"
CONSONANT_RHYME == "consonant"

\* lines 357-653: (key, name, pattern, name or text of the length condition)
STRUCTURES == <<
    [key |-> CONSONANT_RHYME, name |-> "seguidilla",
     structure |-> "(-a-a)|(abab)",
     func |-> "is_seguidilla"],
    [key |-> ASSONANT_RHYME, name |-> "seguidilla",
     structure |-> "(-a-a)|(abab)",
     func |-> "is_seguidilla"],
    [key |-> CONSONANT_RHYME, name |-> "seguidilla_compuesta",
     structure |-> "((-a-a)|(abab))((a-a)|(b-b)|(c-c))",
     func |-> "is_seguidilla_compuesta"],
    [key |-> ASSONANT_RHYME, name |-> "seguidilla_compuesta",
     structure |-> "((-a-a)|(abab))((a-a)|(b-b)|(c-c))",
     func |-> "is_seguidilla_compuesta"],
    [key |-> ASSONANT_RHYME, name |-> "chamberga",
     structure |-> "((-a-a)|(abab))([^-]{2}){3}",
     func |-> "is_chamberga"],
    [key |-> ASSONANT_RHYME, name |-> "seguidilla_gitana",
     structure |-> "(-a-a)|(a-a-)",
     func |-> "is_seguidilla_gitana"],
    [key |-> ASSONANT_RHYME, name |-> "endecha_real",
     structure |-> "(-a-a){2,}",
     func |-> "is_endecha_real"],
    [key |-> CONSONANT_RHYME, name |-> "cuarteto_lira",
     structure |-> "(abab)|(abba)|(-a-a)",
     func |-> "all(x in most_common_lengths(lengths, n=3, number_of_verses=4) for x in [11, 7])"],
    [key |-> ASSONANT_RHYME, name |-> "cuarteto_lira",
     structure |-> "(abab)|(abba)|(-a-a)",
     func |-> "all(x in most_common_lengths(lengths, n=3, number_of_verses=4) for x in [11, 7])"],
    [key |-> CONSONANT_RHYME, name |-> "estrofa_sáfica",
     structure |-> "(----)|(a-a-)|(ab-b)|(abab)",
     func |-> "is_estrofa_safica or is_estrofa_safica_unamuno"],
    [key |-> ASSONANT_RHYME, name |-> "estrofa_sáfica",
     structure |-> "(----)|(a-a-)|(ab-b)|(abab)",
     func |-> "is_estrofa_safica"],
    [key |-> CONSONANT_RHYME, name |-> "estrofa_francisco_de_la_torre",
     structure |-> "(----)|(a-a-)",
     func |-> "is_estrofa_francisco_de_la_torre"],
    [key |-> ASSONANT_RHYME, name |-> "francisco_de_la_torre",
     structure |-> "(----)|(a-a-)",
     func |-> "is_estrofa_francisco_de_la_torre"],
    [key |-> CONSONANT_RHYME, name |-> "estrofa_manriqueña",
     structure |-> "abcabc",
     func |-> "is_estrofa_manriquena"],
    [key |-> CONSONANT_RHYME, name |-> "sexteto_lira",
     structure |-> "(ababcc)|(aabccb)|(abcabc)",
     func |-> "all(x in most_common_lengths(lengths, number_of_verses=6) for x in [11, 7])"],
    [key |-> CONSONANT_RHYME, name |-> "septeto_lira",
     structure |-> "(ababbcc)",
     func |-> "all(x in most_common_lengths(lengths, number_of_verses=7) for x in [11, 7])"],
    [key |-> CONSONANT_RHYME, name |-> "ovillejo",
     structure |-> "aabbcccddc",
     func |-> "is_ovillejo"],
    [key |-> CONSONANT_RHYME, name |-> "sonnet",
     structure |-> "(abba|abab|cddc|cdcd){2}((cd|ef){3}|(cde|efg){2}|[cde]{6})",
     func |-> "all(14 > length > 9 for length in lengths)"],
    [key |-> CONSONANT_RHYME, name |-> "couplet",
     structure |-> "aa",
     func |-> "all(20 > length > 1 for length in lengths)"],
    [key |-> CONSONANT_RHYME, name |-> "tercetillo",
     structure |-> "a.a",
     func |-> "all(11 > length > 1 for length in lengths)"],
    [key |-> CONSONANT_RHYME, name |-> "terceto",
     structure |-> "(aba)|(-aa)",
     func |-> "all(16 > length > 8 for length in lengths)"],
    [key |-> CONSONANT_RHYME, name |-> "sexteto",
     structure |-> "(aabccb)|(aababa)|(-aabba)",
     func |-> "all(16 > length > 9 for length in lengths)"],
    [key |-> CONSONANT_RHYME, name |-> "sexteto_rima",
     structure |-> "(ababcc)|(aacbbc)",
     func |-> "statistics.median(lengths) == 11"],
    [key |-> CONSONANT_RHYME, name |-> "sextilla",
     structure |-> "(aabaab)|(abcabc)|(ababab)|(abbccb)|(aababa)",
     func |-> "all(11 > length > 4 for length in lengths)"],
    [key |-> CONSONANT_RHYME, name |-> "terceto_monorrimo",
     structure |-> "aaa",
     func |-> "all(16 > length > 8 for length in lengths)"],
    [key |-> CONSONANT_RHYME, name |-> "redondilla",
     structure |-> "abba",
     func |-> "all(10 > length > 4 for length in lengths)"],
    [key |-> ASSONANT_RHYME, name |-> "redondilla",
     structure |-> "abba",
     func |-> "all(10 > length > 4 for length in lengths)"],
    [key |-> CONSONANT_RHYME, name |-> "aleluya",
     structure |-> "((.)\\2){3,}",
     func |-> "all(11 > length > 4 for length in lengths)"],
    [key |-> CONSONANT_RHYME, name |-> "cuarteto",
     structure |-> "abba",
     func |-> "all(16 > length > 8 for length in lengths)"],
    [key |-> CONSONANT_RHYME, name |-> "serventesio",
     structure |-> "abab",
     func |-> "all(16 > length > 8 for length in lengths)"],
    [key |-> CONSONANT_RHYME, name |-> "cuaderna_vía",
     structure |-> "aaaa",
     func |-> "statistics.median(lengths) == 14"],
    [key |-> CONSONANT_RHYME, name |-> "cuarteta",
     structure |-> "abab",
     func |-> "all(10 > length > 4 for length in lengths)"],
    [key |-> CONSONANT_RHYME, name |-> "octava_real",
     structure |-> "(abababcc)",
     func |-> "statistics.median(lengths) == 11"],
    [key |-> CONSONANT_RHYME, name |-> "copla_arte_mayor",
     structure |-> "(abbaacca)|(ababbccb)|(abbaacac)",
     func |-> "all(16 > length > 8 for length in lengths)"],
    [key |-> CONSONANT_RHYME, name |-> "copla_arte_menor",
     structure |-> "(abbaacca)|(ababbccb)|(abbaacac)",
     func |-> "statistics.median(lengths) == 8 or (all(x in most_common_lengths(lengths) for x in [8, 4]))"],
    [key |-> CONSONANT_RHYME, name |-> "copla_castellana",
     structure |-> "(abbacddc)|(ababcdcd)|(abbacdcd)|(ababcddc)|(abbaacca)",
     func |-> "statistics.median(lengths) == 8"],
    [key |-> CONSONANT_RHYME, name |-> "copla_mixta",
     structure |-> "abbacca",
     func |-> "all(11 > length > 3 for length in lengths)"],
    [key |-> CONSONANT_RHYME, name |-> "octava",
     structure |-> ".{8}",
     func |-> "all(16 > length > 8 for length in lengths)"],
    [key |-> CONSONANT_RHYME, name |-> "octavilla",
     structure |-> "(abbecdde)|(ababbccb)",
     func |-> "all(11 > length > 4 for length in lengths)"],
    [key |-> ASSONANT_RHYME, name |-> "octavilla",
     structure |-> "(abbecdde)|(ababbccb)",
     func |-> "all(11 > length > 4 for length in lengths)"],
    [key |-> CONSONANT_RHYME, name |-> "espinela",
     structure |-> "abbaaccddc",
     func |-> "statistics.median(lengths) == 8"],
    [key |-> CONSONANT_RHYME, name |-> "copla_real",
     structure |-> "((ababa)|(abaab)|(abbab)|(aabab)|(aabba))((ababa)|(abaab)|(abbab)|(aabab)|(aabba)(cdcdc)|(cdccd)|(cddcd)|(ccdcd)|(ccddc))",
     func |-> "statistics.median(lengths) == 8"],
    [key |-> CONSONANT_RHYME, name |-> "lira",
     structure |-> "ababb",
     func |-> "is_lira"],
    [key |-> CONSONANT_RHYME, name |-> "quinteto",
     structure |-> "(ababa|abaab|abbab|aabab|aabba)",
     func |-> "all(14 > length > 9 for length in lengths)"],
    [key |-> CONSONANT_RHYME, name |-> "quintilla",
     structure |-> "(ababa|abaab|abbab|aabab|aabba)",
     func |-> "all(11 > length > 3 for length in lengths)"],
    [key |-> ASSONANT_RHYME, name |-> "couplet",
     structure |-> "aa",
     func |-> "all(20 > length > 1 for length in lengths)"],
    [key |-> ASSONANT_RHYME, name |-> "silva_arromanzada",
     structure |-> "(-a)+",
     func |-> "all(x in most_common_lengths(lengths) for x in [11, 7])"],
    [key |-> ASSONANT_RHYME, name |-> "cantar",
     structure |-> "-a-a",
     func |-> "all(11 > length > 4 for length in lengths)"],
    [key |-> ASSONANT_RHYME, name |-> "romance",
     structure |-> "((.b)+)|(([^a]a)+)",
     func |-> "statistics.median(lengths) == 8"],
    [key |-> ASSONANT_RHYME, name |-> "romance_arte_mayor",
     structure |-> "((.b)+)|((.a)+)",
     func |-> "11 <= statistics.median(lengths) <= 14"],
    [key |-> ASSONANT_RHYME, name |-> "haiku",
     structure |-> ".*",
     func |-> "re.compile(r'(575)+').match(''.join([str(length) for length in lengths]))"],
    [key |-> ASSONANT_RHYME, name |-> "soleá",
     structure |-> "(a-a)",
     func |-> "statistics.median(lengths) == 8"],
    [key |-> CONSONANT_RHYME, name |-> "decima_antigua",
     structure |-> "(abbaacccaa)",
     func |-> "statistics.median(lengths) == 8"],
    [key |-> CONSONANT_RHYME, name |-> "septeto",
     structure |-> ".{7}",
     func |-> "all(16 > length > 8 for length in lengths)"],
    [key |-> CONSONANT_RHYME, name |-> "septilla",
     structure |-> ".{7}",
     func |-> "all(11 > length > 4 for length in lengths)"],
    [key |-> CONSONANT_RHYME, name |-> "novena",
     structure |-> ".{9}",
     func |-> "True"] >>

\* func(rhythmical_lengths), for the length condition of a catalog entry
apply_func(func, lengths) ==
    CASE func = "is_seguidilla" -> is_seguidilla(lengths)
      [] func = "is_seguidilla_compuesta" -> is_seguidilla_compuesta(lengths)
      [] func = "is_chamberga" -> is_chamberga(lengths)
      [] func = "is_seguidilla_gitana" -> is_seguidilla_gitana(lengths)
      [] func = "is_endecha_real" -> is_endecha_real(lengths)
      \* the value of `f or g` on two functions is f
      [] func = "is_estrofa_safica or is_estrofa_safica_unamuno" ->
            is_estrofa_safica(lengths)
      [] func = "is_estrofa_safica" -> is_estrofa_safica(lengths)
      [] func = "is_estrofa_francisco_de_la_torre" ->
            is_estrofa_francisco_de_la_torre(lengths)
      [] func = "is_estrofa_manriquena" -> is_estrofa_manriquena(lengths)
      [] func = "is_ovillejo" -> is_ovillejo(lengths)
      [] func = "is_lira" -> is_lira(lengths)
      [] func = "all(x in most_common_lengths(lengths, n=3, number_of_verses=4) for x in [11, 7])" ->
            all_in({11, 7}, most_common_lengths(lengths, 3, Some(4)))
      [] func = "all(x in most_common_lengths(lengths, number_of_verses=6) for x in [11, 7])" ->
            all_in({11, 7}, most_common_lengths(lengths, 4, Some(6)))
      [] func = "all(x in most_common_lengths(lengths, number_of_verses=7) for x in [11, 7])" ->
            all_in({11, 7}, most_common_lengths(lengths, 4, Some(7)))
      [] func = "all(x in most_common_lengths(lengths) for x in [11, 7])" ->
            all_in({11, 7}, most_common_lengths(lengths, 4, None))
      [] func = "all(14 > length > 9 for length in lengths)" -> all_between(lengths, 14, 9)
      [] func = "all(20 > length > 1 for length in lengths)" -> all_between(lengths, 20, 1)
      [] func = "all(11 > length > 1 for length in lengths)" -> all_between(lengths, 11, 1)
      [] func = "all(16 > length > 8 for length in lengths)" -> all_between(lengths, 16, 8)
      [] func = "all(16 > length > 9 for length in lengths)" -> all_between(lengths, 16, 9)
      [] func = "all(11 > length > 4 for length in lengths)" -> all_between(lengths, 11, 4)
      [] func = "all(10 > length > 4 for length in lengths)" -> all_between(lengths, 10, 4)
      [] func = "all(11 > length > 3 for length in lengths)" -> all_between(lengths, 11, 3)
      [] func = "statistics.median(lengths) == 11" -> median_doubled(lengths) = 2 * 11
      [] func = "statistics.median(lengths) == 14" -> median_doubled(lengths) = 2 * 14
      [] func = "statistics.median(lengths) == 8" -> median_doubled(lengths) = 2 * 8
      [] func = "statistics.median(lengths) == 8 or (all(x in most_common_lengths(lengths) for x in [8, 4]))" ->
            \/ median_doubled(lengths) = 2 * 8
            \/ all_in({8, 4}, most_common_lengths(lengths, 4, None))
      [] func = "11 <= statistics.median(lengths) <= 14" ->
            2 * 11 <= median_doubled(lengths) /\ median_doubled(lengths) <= 2 * 14
      [] func = "re.compile(r'(575)+').match(''.join([str(length) for length in lengths]))" ->
            is_haiku(lengths)
      [] func = "True" -> TRUE

(***************************************************************************)
(* rhymes.py: search_structure                                             *)
(***************************************************************************)
\* lines 230-234: the loop from catalog position index on; the result is
\* Some(index) at the first entry that satisfies the three conditions
RECURSIVE search_structure_loop(_, _, _, _, _)
search_structure_loop(index, rhyme, rhythmical_lengths, structure_key, structures) ==
    IF index >= Len(structures) THEN None
    ELSE IF /\ structures[index + 1].key = structure_key
            /\ fullmatch(structures[index + 1].structure, rhyme)
            /\ apply_func(structures[index + 1].func, rhythmical_lengths)
         THEN Some(index)
         ELSE search_structure_loop(index + 1, rhyme, rhythmical_lengths,
                                    structure_key, structures)

\* lines 223-234, with the default catalog
search_structure(rhyme, rhythmical_lengths, structure_key) ==
    search_structure_loop(0, rhyme, rhythmical_lengths, structure_key, STRUCTURES)

(***************************************************************************)
(* core.py: the syllabifier.  Every expression is compiled with re.I, so a *)
(* character is compared in lower case; ci(word, p) is "" outside the word *)
(***************************************************************************)
ci(word, p) == IF p \in DOMAIN word THEN lower(word[p]) ELSE ""
chars(s) == {s[i] : i \in DOMAIN s}

AZ == chars(<<"a","b","c","d","e","f","g","h","i","j","k","l","m","n","o","p","q","r","s","t","u","v","w","x","y","z">>)
SYLLABLE_VOWELS == chars(<<"a","e","i","o","u","á","é","í","ó","ú">>)
PREFIX_CONSONANTS == chars(<<"b","c","d","f","g","j","k","l","m","h","n","ñ","p","q","r","s","t","v","x","y","z">>)
POST_CONSONANTS == chars(<<"b","c","d","f","g","h","j","k","l","m","ñ","n","p","q","r","s","t","v","w","x","y","z">>)

\* lines 79-93: the place where a pre-rule splits, p being the position of the
\* last character of its first group; a rule is named as the source names it
pre_rule_at(RE, word, p) ==
    CASE RE = "W_VOWEL_GROUP" ->
            /\ ci(word, p) \in SYLLABLE_VOWELS
            /\ ci(word, p + 1) = "w"
            /\ ci(word, p + 2) \in SYLLABLE_VOWELS
      [] RE = "CONSONANT_GROUP" ->
            /\ ci(word, p) \in chars(<<"h","m","n","q","s","w">>)
            /\ ci(word, p + 1) \in chars(<<"h","l","r">>)
            /\ ci(word, p + 2) \in SYLLABLE_VOWELS
      [] RE = "CONSONANT_GROUP_EXCEPTION_LL" ->
            /\ ci(word, p) \in chars(<<"h","l","m","n","q","s","w">>)
            /\ ci(word, p + 1) \in chars(<<"h","r">>)
            /\ ci(word, p + 2) \in SYLLABLE_VOWELS
      [] RE = "CONSONANT_GROUP_EXCEPTION_DL" ->
            /\ ci(word, p) = "d"
            /\ ci(word, p + 1) = "l"
            /\ ci(word, p + 2) \in SYLLABLE_VOWELS
      [] RE = "PREFIX_SIN_WITH_CONSONANT_RE" ->
            /\ p = 3
            /\ ci(word, 1) = "s" /\ ci(word, 2) = "i" /\ ci(word, 3) = "n"
            /\ ci(word, 4) \in PREFIX_CONSONANTS
      [] RE = "PREFIX_DES_WITH_CONSONANT_RE" ->
            /\ p = 3
            /\ ci(word, 1) = "d" /\ ci(word, 2) = "e" /\ ci(word, 3) = "s"
            /\ ci(word, 4) \in PREFIX_CONSONANTS
      [] RE = "PREFIX_RNH_DIPHTHONG_RE" ->
            /\ ci(word, p) = "r"
            /\ ci(word, p + 1) = "h"
            /\ ci(word, p + 2) = "u"
            /\ ci(word, p + 3) \in chars(<<"a","e","i","o","á","é","í","ó">>)

\* "-".join(match.groups()) for a match whose first group ends at p
join_groups(word, p) ==
    SubSeq(word, 1, p) \o <<"-">> \o SubSeq(word, p + 1, Len(word))

Max(S) == CHOOSE x \in S : \A y \in S : y <= x
Min(S) == CHOOSE x \in S : \A y \in S : x <= y

\* a rule "(.*X)(Y.*)": the greedy .* ends at the right-most place that fits
split_greedy(word, RE) ==
    IF \E p \in DOMAIN word : pre_rule_at(RE, word, p)
    THEN join_groups(word, Max({p \in DOMAIN word : pre_rule_at(RE, word, p)}))
    ELSE word

\* a rule "(.*?X)(Y.*)": the lazy .*? ends at the left-most place that fits
split_lazy(word, RE) ==
    IF \E p \in DOMAIN word : pre_rule_at(RE, word, p)
    THEN join_groups(word, Min({p \in DOMAIN word : pre_rule_at(RE, word, p)}))
    ELSE word

\* lines 231-270
apply_exception_rules(word) ==
    split_lazy(
      split_greedy(
        split_greedy(
          split_greedy(
            split_greedy(
              split_greedy(
                split_greedy(word, "W_VOWEL_GROUP"),
                "CONSONANT_GROUP"),
              "CONSONANT_GROUP_EXCEPTION_LL"),
            "CONSONANT_GROUP_EXCEPTION_DL"),
          "PREFIX_SIN_WITH_CONSONANT_RE"),
        "PREFIX_DES_WITH_CONSONANT_RE"),
      "PREFIX_RNH_DIPHTHONG_RE")

\* lines 35-58: the character classes of letter_clusters_re
WEAK_H == chars(<<"i","u","ü">>)
\* every vowel instead: "i" and "u" would take part in a hiatus
ALL_VOWELS == chars(<<"a","á","e","é","i","í","o","ó","u","ú">>)
OPEN_VOWELS == chars(<<"a","á","e","é","í","o","ó","ú">>)
LETTERS == AZ \cup chars(<<"á","é","í","ó","ú","ñ">>)
NUCLEUS == chars(<<"a","á","e","é","i","í","o","ó","u","ú","ü">>)
UMLAUTS == chars(<<"ä","ë","ï","ö","ü">>)

\* (?:[bcdfghjklmnñpqstvy][hlr])|(?:[bcdfghjklmnñpqrstvy][hr])|(?:[bcdfghjklmnñpqrstvyz][h])
liquid_cluster(word, p) ==
    \/ ci(word, p) \in chars(<<"b","c","d","f","g","h","j","k","l","m","n","ñ","p","q","s","t","v","y">>) /\ ci(word, p + 1) \in chars(<<"h","l","r">>)
    \/ ci(word, p) \in chars(<<"b","c","d","f","g","h","j","k","l","m","n","ñ","p","q","r","s","t","v","y">>) /\ ci(word, p + 1) \in chars(<<"h","r">>)
    \/ ci(word, p) \in chars(<<"b","c","d","f","g","h","j","k","l","m","n","ñ","p","q","r","s","t","v","y","z">>) /\ ci(word, p + 1) = "h"

\* the number of the first alternative of letter_clusters_re that matches at
\* position p, or 0 when none does
alternative(word, p) ==
    CASE ci(word, p) \in WEAK_H /\ ci(word, p + 1) = "h" /\ ci(word, p + 2) \in WEAK_H -> 1
      [] ci(word, p) \in OPEN_VOWELS /\ ci(word, p + 1) = "h"
            /\ ci(word, p + 2) \in WEAK_H -> 2
      [] ci(word, p) \in WEAK_H /\ ci(word, p + 1) = "h"
            /\ ci(word, p + 2) \in OPEN_VOWELS -> 3
      [] ci(word, p) \in LETTERS /\ liquid_cluster(word, p + 1)
            /\ ci(word, p + 3) \in NUCLEUS -> 4
      [] liquid_cluster(word, p) /\ ci(word, p + 2) \in NUCLEUS -> 5
      [] ci(word, p) \in LETTERS /\ ci(word, p + 1) \in chars(<<"b","c","d","f","g","h","j","k","l","m","n","ñ","p","q","r","s","t","v","x","y","z">>)
            /\ ci(word, p + 2) \in (NUCLEUS \cup {"ï"}) -> 6
      [] ci(word, p) \in OPEN_VOWELS /\ ci(word, p + 1) \in OPEN_VOWELS -> 7
      [] ci(word, p) = "ü" /\ ci(word, p + 1) \in chars(<<"e","i","í">>) -> 8
      [] ci(word, p) \in chars(<<"a","e","i","o","u">>) /\ ci(word, p + 1) \in UMLAUTS -> 9
      [] ci(word, p) \in UMLAUTS /\ ci(word, p + 1) \in AZ -> 10
      [] ci(word, p) \in LETTERS -> 11
      [] OTHER -> 0

\* letter_clusters_re.search(word).lastindex: the alternative that matches at
\* the left-most position where one does, or None
letter_clusters_re_search(word) ==
    IF \E p \in DOMAIN word : alternative(word, p) # 0
    THEN Some(alternative(word, Min({p \in DOMAIN word : alternative(word, p) # 0})))
    ELSE None

\* line 312: the hyphen added after a character
hyphen_after(m) == IF m # None /\ The(m) \notin {5, 8, 11} THEN <<"-">> ELSE <<>>

\* lines 306-312: the scan of the word, one character at a time
RECURSIVE scan(_)
scan(word) ==
    IF Len(word) = 0 THEN <<>>
    ELSE <<word[1]>> \o hyphen_after(letter_clusters_re_search(word)) \o scan(Tail(word))

\* the position after the last hyphen before q (1 when there is none)
syllable_start(word, q) ==
    Max({0} \cup {k \in 1..(q - 1) : word[k] = "-"}) + 1

\* (?:qu|[bcdfghjklmñnpqrstvwxyz]+)? between the start of the syllable and q
onset_before(word, q) ==
    LET from == syllable_start(word, q)
    IN  \/ from = q
        \/ from = q - 2 /\ ci(word, from) = "q" /\ ci(word, from + 1) = "u"
        \/ \A k \in from..(q - 1) : ci(word, k) \in POST_CONSONANTS

\* lines 98-109: a post-rule matches with its group 2 at q and the hyphen at
\* q + 1; a rule is named as the source names it
post_rule_at(RE, word, q) ==
    CASE RE = "CONSONANT_CLUSTER_RE" ->
            /\ q = 1 \/ word[q - 1] = "-"
            /\ ci(word, q) \in chars(<<"m","p","g","c">>)
            /\ ci(word, q + 1) = "-"
            /\ ci(word, q + 2) \in POST_CONSONANTS
            /\ ci(word, q + 3) \in chars(<<"a","e","i","o","á","é","í","ó">>)
      [] RE = "LOWERING_DIPHTHONGS_WITH_H" ->
            /\ onset_before(word, q)
            /\ ci(word, q) \in chars(<<"a","e","o">>)
            /\ ci(word, q + 1) = "-"
            /\ ci(word, q + 2) = "h"
            /\ ci(word, q + 3) \in chars(<<"i","u">>)
            /\ ci(word, q + 4) \notin chars(<<"a","e","o","i","u","í","ú","á","é","ó">>)
      [] RE = "RAISING_DIPHTHONGS_WITH_H" ->
            /\ onset_before(word, q)
            /\ ci(word, q) \in chars(<<"i","u">>)
            /\ ci(word, q + 1) = "-"
            /\ ci(word, q + 2) = "h"
            /\ ci(word, q + 3) \in chars(<<"a","e","i","o","u","á","é","ó">>)
            /\ ci(word, q + 4) \notin chars(<<"a","e","o","á","é","i","u","í","ú">>)

\* RE.search(word) is not None
re_search(RE, word) == \E q \in DOMAIN word : post_rule_at(RE, word, q)

\* \1\3 written over the match: group 2 is left out
groups_joined_without_2(word, q) == SubSeq(word, 1, q - 1) \o SubSeq(word, q + 2, Len(word))

\* \1\2\3 written over the match: the groups without the hyphen between them
groups_joined(word, q) == SubSeq(word, 1, q) \o SubSeq(word, q + 2, Len(word))

\* re.sub(RE, r'\1\2\3', word): the match is the one with the longest group 1
re_sub(RE, word) ==
    IF re_search(RE, word)
    THEN groups_joined(word, Max({q \in DOMAIN word : post_rule_at(RE, word, q)}))
    ELSE word

\* lines 280-288: one re.sub for each of the three groups of the first match
sub_for_each_group(RE, word) ==
    IF re_search(RE, word) THEN re_sub(RE, re_sub(RE, re_sub(RE, word))) ELSE word

apply_exception_rules_post(word) ==
    sub_for_each_group("RAISING_DIPHTHONGS_WITH_H",
        sub_for_each_group("LOWERING_DIPHTHONGS_WITH_H",
            sub_for_each_group("CONSONANT_CLUSTER_RE", word)))

\* str.split("-") without the empty pieces, line 316
RECURSIVE split_hyphens(_, _)
split_hyphens(output, piece) ==
    IF Len(output) = 0 THEN (IF piece = <<>> THEN <<>> ELSE <<piece>>)
    ELSE IF Head(output) = "-"
         THEN (IF piece = <<>> THEN <<>> ELSE <<piece>>) \o split_hyphens(Tail(output), <<>>)
         ELSE split_hyphens(Tail(output), Append(piece, Head(output)))

\* alternative_syllabification.py: the table of foreign words, each with its
\* hyphenated syllabification, and the table of alternative syllabifications
SYLLABIFICATOR_FOREIGN_WORDS_DICT ==
    [w \in {<<"b","a","b","y">>} |-> <<"b","a","-","b","y">>]
ALTERNATIVE_SYLLABIFICATION == [w \in {} |-> <<None, <<>>>>]

\* ALTERNATIVE_SYLLABIFICATION.get(original_word, (None, ()))[1]
alternatives_of(original_word) ==
    IF original_word \in DOMAIN ALTERNATIVE_SYLLABIFICATION
    THEN ALTERNATIVE_SYLLABIFICATION[original_word][2]
    ELSE <<>>

\* lines 299-314: the hyphenated output before it is split
syllabify_output(word) ==
    IF word \in DOMAIN SYLLABIFICATOR_FOREIGN_WORDS_DICT
    THEN SYLLABIFICATOR_FOREIGN_WORDS_DICT[word]
    ELSE apply_exception_rules_post(scan(apply_exception_rules(word)))

\* syllabify(word) -> (syllables, alternatives)
syllabify(word) ==
    <<split_hyphens(syllabify_output(word), <<>>), alternatives_of(word)>>

\* line 24, accents_re: [áéíóú] whatever the case
ACCENTS == chars(<<"á","é","í","ó","ú">>)

\* "|".join(syllable_list)
RECURSIVE join_bar(_)
join_bar(syllable_list) ==
    IF Len(syllable_list) = 0 THEN <<>>
    ELSE IF Len(syllable_list) = 1 THEN syllable_list[1]
    ELSE syllable_list[1] \o <<"|">> \o join_bar(Tail(syllable_list))

\* the items a Python str gives when it is iterated: its characters
characters(s) == [i \in DOMAIN s |-> <<s[i]>>]

\* accents_re.search(word).span()[0], 0-based, on a word that has an accent
first_accent(word) == Min({i \in DOMAIN word : lower(word[i]) \in ACCENTS}) - 1

\* the position that reads the start of the match as the position of the syllable
get_orthographic_accent_span(syllable_list) ==
    LET word == join_bar(syllable_list)
    IN  IF \E i \in DOMAIN word : lower(word[i]) \in ACCENTS
        THEN Some(first_accent(word))
        ELSE None

\* lines 320-335: the number of "|" before the first accented vowel, or None
get_orthographic_accent(syllable_list) ==
    LET word == join_bar(syllable_list)
    IN  IF \E i \in DOMAIN word : lower(word[i]) \in ACCENTS
        THEN Some(Cardinality({i \in 1..first_accent(word) : word[i] = "|"}))
        ELSE None

\* line 25, paroxytone_re.search(syllable) is not None
paroxytone_re_search(syllable) ==
    LET n == Len(syllable)
    IN  \/ ci(syllable, n) \in chars(<<"a","e","i","o","u","n">>)
        \/ ci(syllable, n) = "s" /\ ci(syllable, n - 1) \in chars(<<"a","e","i","o","u">>)

\* "not position": no accent, or an accent on position 0
not_position(position) == position = None \/ position = Some(0)

\* lines 338-347; syllable_list[len(syllable_list) - 1] needs a syllable
is_paroxytone(syllable_list) ==
    IF not_position(get_orthographic_accent(characters(join(syllable_list))))
    THEN paroxytone_re_search(syllable_list[Len(syllable_list)])
    ELSE FALSE

\* lines 63-70
STRONG_VOWELS == chars(<<"a","e","o","á","é","ó","Á","É","Ó","A","E","O">>)
WEAK_VOWELS == chars(<<"i","u","ü","í","ú","I","Í","U","Ü","Ú">>)
STRESSED_UNACCENTED_MONOSYLLABLES == {<<"y","o">>, <<"v","i","o">>, <<"d","i","o">>, <<"f","e">>, <<"s","o","l">>, <<"t","i">>, <<"u","n">>}
UNSTRESSED_UNACCENTED_MONOSYLLABLES ==
    {<<"d","e">>, <<"e","l">>, <<"l","a">>, <<"l","a","s">>, <<"l","e">>, <<"l","e","s">>, <<"l","o">>, <<"l","o","s">>, <<"m","a","s">>, <<"m","e">>,
     <<"m","i">>, <<"n","o","s">>, <<"o","s">>, <<"q","u","e">>, <<"s","e">>, <<"s","i">>, <<"s","u">>, <<"t","a","n">>, <<"t","e">>, <<"t","u">>}

\* dict.get(key)
dict_get(d, key) == IF key \in DOMAIN d THEN Some(d[key]) ELSE None

\* the condition read as "unstressed only if a function word without override"
monosyllable_stress_unless(syllable, pos, tag) ==
    IF /\ str_lower(syllable) \in UNSTRESSED_UNACCENTED_MONOSYLLABLES
       /\ ~(\/ str_lower(syllable) \in STRESSED_UNACCENTED_MONOSYLLABLES
            \/ pos \notin {"DET", "PRON", "ADP"}
            \/ pos = "PRON" /\ dict_get(tag, "Case") = Some("Nom")
            \/ pos = "DET" /\ dict_get(tag, "Definite") = Some("Ind"))
    THEN 0
    ELSE -1

\* lines 374-382: the stress of a word of one syllable
monosyllable_stress(syllable, pos, tag) ==
    IF /\ str_lower(syllable) \notin UNSTRESSED_UNACCENTED_MONOSYLLABLES
       /\ \/ str_lower(syllable) \in STRESSED_UNACCENTED_MONOSYLLABLES
          \/ pos \notin {"DET", "PRON", "ADP"}
          \/ pos = "PRON" /\ dict_get(tag, "Case") = Some("Nom")
          \/ pos = "DET" /\ dict_get(tag, "Definite") = Some("Ind")
    THEN -1
    ELSE 0

\* lines 383-393: the stress of a word of several syllables
polysyllable_stress(syllable_list, tilde) ==
    IF tilde # None THEN -(Len(syllable_list) - The(tilde))
    ELSE IF is_paroxytone(syllable_list) THEN -2
    ELSE -1

\* lines 374-393
stressed_position_of(syllable_list, pos, tag) ==
    IF Len(syllable_list) = 1
    THEN monosyllable_stress(syllable_list[1], pos, tag)
    ELSE polysyllable_stress(syllable_list, get_orthographic_accent(syllable_list))

\* lines 401-407: the vowels that two syllables of a word meet with
sinaeresis(first_syllable, second_syllable) ==
    /\ Len(first_syllable) > 0
    /\ Len(second_syllable) > 0
    /\ LET last == first_syllable[Len(first_syllable)]
           first == second_syllable[1]
       IN  \/ last \in STRONG_VOWELS /\ first \in STRONG_VOWELS
           \/ last \in WEAK_VOWELS /\ first \in STRONG_VOWELS
           \/ last \in STRONG_VOWELS /\ first \in WEAK_VOWELS

\* lines 394-408: index is 0-based
out_syllable(syllable_list, index, stressed_position) ==
    LET item == [syllable |-> syllable_list[index + 1],
                 is_stressed |-> (Len(syllable_list) - index = -stressed_position)]
    IN  IF /\ index + 2 <= Len(syllable_list)
           /\ sinaeresis(syllable_list[index + 1], syllable_list[index + 2])
        THEN [syllable |-> item.syllable, is_stressed |-> item.is_stressed,
              has_sinaeresis |-> TRUE]
        ELSE item

word_stress(syllable_list, stressed_position) ==
    [word |-> [i \in 1..Len(syllable_list) |->
                   out_syllable(syllable_list, i - 1, stressed_position)],
     stress_position |-> stressed_position]

\* lines 363-411; a word without syllables raises IndexError in is_paroxytone
get_word_stress_raises(word) == Len(syllabify(word)[1]) = 0

get_word_stress_of(syllable_list, pos, tag) ==
    word_stress(syllable_list, stressed_position_of(syllable_list, pos, tag))

get_word_stress(word, pos, tag) == get_word_stress_of(syllabify(word)[1], pos, tag)


(***************************************************************************)
(* The rhyme coder as a state machine: get_rhymes is called on one list of *)
(* stressed endings, again and again, as analyze_rhyme does for its trials *)
(***************************************************************************)
MaxLines == 4
MaxOffset == 2

\* stressed endings of tests/test_rhymes.py: (ending, syllables_count, offset)
ENDINGS == {
    << << <<"s","o","n">> >>, 7, -1 >>,
    << << <<"d","ó","n">> >>, 7, -1 >>,
    << << <<"s","i","ó","n">> >>, 8, -1 >>,
    << << <<"t","a">>, <<"d","o">> >>, 8, -2 >> }

Offsets == {None} \cup {Some(k) : k \in 1..MaxOffset}

Lists(S, n) == UNION {[1..k -> S] : k \in 0..n}

\* the variables of the operations that a specification does not exercise
RhymesIdle == stressed_endings = <<>> /\ call = None /\ repeated = FALSE /\ out = None
SearchIdle == search_args = None /\ search_result = None
AnalyzeIdle == analyze_args = None /\ analyze_raised = "" /\ analyze_result = None
WordIdle ==
    /\ word_args = None
    /\ syllabify_result = None
    /\ stress_args = None
    /\ stress_raised = ""
    /\ stress_result = None
ScansionIdle == scansion_args = None /\ scansion_raised = "" /\ scansion_result = None
LettersIdle == letters_args = None /\ letters_result = None
TagIdle == tag_args = None /\ tag_result = None

Init ==
    /\ LettersIdle
    /\ TagIdle
    /\ stressed_endings \in Lists(ENDINGS, MaxLines)
    /\ call = None
    /\ repeated = FALSE
    /\ out = None
    /\ pc = "get_rhymes"
    /\ SearchIdle
    /\ AnalyzeIdle
    /\ WordIdle
    /\ ScansionIdle

\* the call's effect on the state, given its arguments and what it computed
GetRhymesReturn(args, res) ==
    /\ stressed_endings' = res.stressed_endings
    /\ call' = Some(args)
    /\ repeated' = (call = Some(args))
    /\ out' = Some(res)
    /\ UNCHANGED <<letters_vars, tag_vars, scansion_vars, pc, search_vars, analyze_vars, word_vars>>

\* lines 244-250: the (assonance, relaxation) trials in analyze_rhyme's order
TRIALS == << <<FALSE, TRUE>>, <<FALSE, FALSE>>, <<TRUE, TRUE>>, <<TRUE, FALSE>> >>

\* The callers of get_rhymes on one list: a first call with any arguments,
\* the same call again, or the next trial of analyze_rhyme's loops.
MayFollow(args) ==
    IF call = None THEN TRUE
    ELSE IF args = The(call) THEN TRUE
    ELSE /\ args.offset = The(call).offset
         /\ \E t \in 1..(Len(TRIALS) - 1) :
               /\ TRIALS[t] = <<The(call).assonance, The(call).relaxation>>
               /\ TRIALS[t + 1] = <<args.assonance, args.relaxation>>

\* one call get_rhymes(stressed_endings, assonance, relaxation, offset)
GetRhymes(assonance, relaxation, offset) ==
    /\ MayFollow([assonance |-> assonance, relaxation |-> relaxation,
                  offset |-> offset])
    /\ GetRhymesReturn(
          [assonance |-> assonance, relaxation |-> relaxation, offset |-> offset],
          get_rhymes(stressed_endings, assonance, relaxation, offset))

\* one call get_clean_codes(stressed_endings, assonance, relaxation) on its
\* own: line 84 marks the stress in the caller's list, the same for every
\* value of the two flags, and what the call returns is not kept
GetCleanCodes ==
    /\ stressed_endings' = marked_endings(stressed_endings)
    /\ UNCHANGED <<call, repeated, out>>
    /\ UNCHANGED <<letters_vars, tag_vars, scansion_vars, pc, search_vars, analyze_vars, word_vars>>

Next ==
    \/ \E assonance \in BOOLEAN, relaxation \in BOOLEAN, offset \in Offsets :
          GetRhymes(assonance, relaxation, offset)
    \/ GetCleanCodes

Spec == Init /\ [][Next]_vars

(***************************************************************************)
(* Claims about the rhyme coder (specification Spec)                       *)
(***************************************************************************)
Called == out # None
Letters == The(out).rhymes
LineSet == DOMAIN The(out).ending_codes

\* the nearest earlier line with the code id of line j, 0 if there is none
NearestEarlier(j) ==
    LET same == {i \in 1..(j - 1) : The(out).ending_codes[i] = The(out).ending_codes[j]}
    IN  IF same = {} THEN 0 ELSE CHOOSE i \in same : \A h \in same : h <= i

\* C1 as stated: with an offset k configured, no two lines that carry the same
\* non-sentinel rhyme letter are more than k lines apart.
C1_NoSameLetterBeyondOffset ==
    (Called /\ The(call).offset # None) =>
        \A i, j \in LineSet :
            (i < j /\ Letters[i] # "-" /\ Letters[i] = Letters[j])
                => j - i <= The(The(call).offset)

\* C1 as amended: with an offset k configured, a line and the nearest earlier
\* line with its code, when both carry the same non-sentinel rhyme letter, are
\* at most k lines apart.
C1_LetterWithinOffsetOfNearestEarlier ==
    (Called /\ The(call).offset # None) =>
        \A j \in LineSet :
            (/\ NearestEarlier(j) # 0
             /\ Letters[j] # "-"
             /\ Letters[NearestEarlier(j)] = Letters[j])
                => j - NearestEarlier(j) <= The(The(call).offset)

\* C1 witness: a chain of three lines with one letter, each within the offset
\* of the nearest earlier one, the first and the last more than k apart.
C1_Witness ==
    /\ Called /\ The(call).offset # None
    /\ \E j \in LineSet :
          LET i == NearestEarlier(j)
              h == IF i = 0 THEN 0 ELSE NearestEarlier(i)
          IN  /\ h # 0
              /\ Letters[j] # "-"
              /\ Letters[i] = Letters[j]
              /\ Letters[h] = Letters[j]
              /\ j - h > The(The(call).offset)

\* the rhyming part of a stressed syllable, accents and case aside
RhymePart(syllable) ==
    INITIAL_CONSONANTS_RE_sub(strip_accents(str_lower(syllable)))
HasTilde(syllable) == TILDED_VOWELS_RE_search(syllable) # 0

\* two endings that differ only in the orthographic accent of the stressed
\* syllable (and in the consonants before its vowel, which never count)
DifferOnlyInAccent(e1, e2) ==
    /\ Len(e1) = Len(e2)
    /\ HasTilde(e1[1]) # HasTilde(e2[1])
    /\ RhymePart(e1[1]) = RhymePart(e2[1])
    /\ \A k \in 2..Len(e1) : e1[k] = e2[k]

\* C2: under consonant coding, relaxed or not, two endings whose stressed
\* syllables differ only in the orthographic accent (son, dón) get the same
\* code id from get_clean_codes.
C2_AccentDoesNotSplitRhyme ==
    (Called /\ ~The(call).assonance) =>
        \A i, j \in LineSet :
            DifferOnlyInAccent(stressed_endings[i][1], stressed_endings[j][1])
                => The(out).ending_codes[i] = The(out).ending_codes[j]

\* C6: the first letter that is not the unrhymed symbol is "a".
C6_FirstLetterIsA ==
    Called =>
        \A i \in LineSet :
            (Letters[i] # "-" /\ \A j \in 1..(i - 1) : Letters[j] = "-")
                => Letters[i] = "a"

\* C6 witness: the first rhymed line is not the one assign_letter_codes
\* numbered 0 (the line numbered 0 lost its rhyme to the offset), and its
\* letter is "a".
C6_Witness ==
    /\ Called
    /\ \E i \in LineSet :
          /\ Letters[i] = "a"
          /\ \A j \in 1..(i - 1) : Letters[j] = "-"
          /\ The(out).rhyme_codes[i] > 0

Returned(o) == <<o.rhymes, o.unstressed_endings, o.stresses>>

\* C7: a second get_rhymes call on the same list with the same assonance,
\* relaxation and offset returns the letters, ending texts and stress offsets
\* of the call before it.
C7_SecondCallSameResult ==
    [][(call # None /\ call' = call) => Returned(The(out')) = Returned(The(out))]_vars

\* C7 witness: a call that repeated the arguments of the call before it, on a
\* list with an accented and an unaccented stressed syllable.
C7_Witness ==
    /\ Called /\ repeated
    /\ \E i, j \in LineSet :
          /\ HasTilde(stressed_endings[i][1][1])
          /\ ~HasTilde(stressed_endings[j][1][1])

Occurrences(id) == {i \in LineSet : The(out).ending_codes[i] = id}

\* C10: the distinct code strings are numbered 0, 1, 2, ... in the order of
\* their first occurrence, every line gets the id of its code string, and the
\* unrhymed set is exactly the ids that occur on exactly one line.
C10_CodeNumbering ==
    Called =>
        /\ \A i \in LineSet :
              /\ The(out).ending_codes[i] \in 0..(Len(The(out).codes) - 1)
              /\ The(out).codes[The(out).ending_codes[i] + 1] =
                    code_string(stressed_endings[i][1], The(call).assonance,
                                The(call).relaxation)
              \* a first occurrence takes the next unused number
              /\ (NearestEarlier(i) = 0) =>
                    The(out).ending_codes[i] =
                        Cardinality({The(out).ending_codes[h] : h \in 1..(i - 1)})
        /\ \A a, b \in DOMAIN The(out).codes :
              The(out).codes[a] = The(out).codes[b] => a = b
        /\ \A a \in DOMAIN The(out).codes : Occurrences(a - 1) # {}
        /\ The(out).unrhymed_verses =
              {id \in 0..(Len(The(out).codes) - 1) :
                  Cardinality(Occurrences(id)) = 1}

\* C10 witness: one code on three lines (so not unrhymed) after a code that
\* occurs once (so unrhymed).
C10_Witness ==
    /\ Called
    /\ \E id \in The(out).unrhymed_verses : Cardinality(Occurrences(id)) = 1
    /\ \E id \in 0..(Len(The(out).codes) - 1) :
          /\ Cardinality(Occurrences(id)) >= 3
          /\ id \notin The(out).unrhymed_verses


(***************************************************************************)
(* search_structure as a state machine: one call on a rhyme string, the    *)
(* lengths of its lines and a rhyme type (specification SpecSearch)        *)
(***************************************************************************)
MaxLength == 11

\* rhyme strings of 0 to 14 lines
RHYMES == {
    <<>>, <<"a">>, <<"-">>, <<"a","a">>, <<"-","a">>, <<"a","b">>, <<"a","a","a">>, <<"a","b","a">>, <<"a","-","a">>, <<"-","a","a">>,
    <<"a","b","a","b">>, <<"a","b","b","a">>, <<"-","a","-","a">>, <<"a","-","a","-">>, <<"-","-","-","-">>, <<"a","a","a","a">>, <<"a","b","-","b">>,
    <<"a","b","a","b","b">>, <<"a","b","a","b","a">>, <<"a","b","a","b","c","c">>, <<"a","a","b","b","c","c">>, <<"-","a","-","a","-","a">>,
    <<"a","b","a","b","b","c","c">>, <<"a","b","b","a","c","c","a">>, <<"a","a","b","b","c","c","d">>, <<"a","b","a","b","a","b","c","c">>, <<"a","b","b","a","a","c","c","a">>, <<"-","a","-","a","-","a","-","a">>,
    <<"a","a","b","b","c","c","d","d","e">>, <<"a","b","b","a","a","c","c","d","d","c">>, <<"a","b","b","a","a","b","b","a","c","d","c","d","c","d">> }

LENGTHS == 4..MaxLength
LONG_LENGTHS == {5, 7, 8, 11, 14}

\* the lists of lengths tried for a stanza of n lines: every list over LENGTHS
\* up to four lines, two alternating lengths beyond
LengthLists(n) ==
    IF n <= 4 THEN [1..n -> LENGTHS]
    ELSE {[i \in 1..n |-> IF i % 2 = 1 THEN v ELSE w] : v, w \in LONG_LENGTHS}

InitSearch ==
    /\ LettersIdle
    /\ TagIdle
    /\ \E r \in RHYMES : \E l \in LengthLists(Len(r)) :
          \E k \in {CONSONANT_RHYME, ASSONANT_RHYME} :
              search_args = Some([rhyme |-> r, rhythmical_lengths |-> l,
                                  structure_key |-> k])
    /\ search_result = None
    /\ pc = "search_structure"
    /\ RhymesIdle
    /\ AnalyzeIdle
    /\ WordIdle
    /\ ScansionIdle

\* one call search_structure(rhyme, rhythmical_lengths, structure_key)
SearchStructure ==
    /\ pc = "search_structure"
    /\ search_result' = search_structure(The(search_args).rhyme,
                                         The(search_args).rhythmical_lengths,
                                         The(search_args).structure_key)
    /\ pc' = "returned"
    /\ UNCHANGED <<letters_vars, tag_vars, scansion_vars, search_args, rhymes_vars, analyze_vars, word_vars>>

NextSearch == SearchStructure

SpecSearch == InitSearch /\ [][NextSearch]_vars

(***************************************************************************)
(* Claims about search_structure (specification SpecSearch)                *)
(***************************************************************************)
Searched == pc = "returned" /\ search_args # None
Ranks == 0..(Len(STRUCTURES) - 1)

\* the catalog entry at a rank has the rhyme type asked for, its pattern
\* matches the whole rhyme string and its condition accepts the lengths
Satisfies(index) ==
    /\ STRUCTURES[index + 1].key = The(search_args).structure_key
    /\ accepts(STRUCTURES[index + 1].structure, The(search_args).rhyme)
    /\ apply_func(STRUCTURES[index + 1].func, The(search_args).rhythmical_lengths)

\* C4: search_structure returns the smallest catalog index whose entry has
\* the rhyme type asked for, whose pattern matches the whole rhyme string and
\* whose length condition accepts the lengths, and None when there is none.
C4_SmallestSatisfyingIndex ==
    Searched =>
        IF \E i \in Ranks : Satisfies(i)
        THEN /\ search_result # None
             /\ Satisfies(The(search_result))
             /\ \A j \in 0..(The(search_result) - 1) : ~Satisfies(j)
        ELSE search_result = None

\* C4 witness: the entry returned pre-empts a later entry that satisfies the
\* three conditions too, and an entry before it of the same rhyme type, whose
\* condition accepts the lengths, matches a proper prefix of the rhyme string
\* only.
C4_Witness ==
    /\ Searched
    /\ search_result # None
    /\ \E j \in Ranks : j > The(search_result) /\ Satisfies(j)
    /\ \E e \in 0..(The(search_result) - 1) :
          /\ STRUCTURES[e + 1].key = The(search_args).structure_key
          /\ apply_func(STRUCTURES[e + 1].func, The(search_args).rhythmical_lengths)
          /\ prefix_match(STRUCTURES[e + 1].structure, The(search_args).rhyme)

IsConsonantAbab ==
    /\ The(search_args).rhyme = <<"a","b","a","b">>
    /\ The(search_args).structure_key = CONSONANT_RHYME

ResultName == IF search_result = None THEN "" ELSE STRUCTURES[The(search_result) + 1].name

\* C5 as stated: consonant abab with every length strictly between 4 and 11
\* is a cuarteta.
C5_AbabBetween4And11IsCuarteta ==
    (Searched /\ IsConsonantAbab
        /\ (\A i \in 1..4 : The(search_args).rhythmical_lengths[i] > 4
                            /\ The(search_args).rhythmical_lengths[i] < 11))
        => ResultName = "cuarteta"

\* C5: consonant abab with every length strictly between 4 and 10 is a
\* cuarteta, unless the lengths are those of a seguidilla (6-8, 4-6, 6-8,
\* 4-6), of an estrofa sáfica (9, 9, 9 and 5 or 6) or of a serventesio (all 9),
\* the entries with the pattern abab that come before cuarteta.
C5_AbabBetween4And10IsCuarteta ==
    (Searched /\ IsConsonantAbab
        /\ (\A i \in 1..4 : The(search_args).rhythmical_lengths[i] > 4
                            /\ The(search_args).rhythmical_lengths[i] < 10)
        /\ ~is_seguidilla(The(search_args).rhythmical_lengths)
        /\ ~is_estrofa_safica(The(search_args).rhythmical_lengths)
        /\ ~(\A i \in 1..4 : The(search_args).rhythmical_lengths[i] = 9))
        => ResultName = "cuarteta"

\* C5 witness: a cuarteta of lines of different lengths, 5 and 9 among them.
C5_Witness ==
    /\ Searched /\ IsConsonantAbab
    /\ ResultName = "cuarteta"
    /\ 5 \in elements(The(search_args).rhythmical_lengths)
    /\ 9 \in elements(The(search_args).rhythmical_lengths)


(***************************************************************************)
(* rhymes.py: get_stressed_endings and analyze_rhyme                       *)
(***************************************************************************)
\* lines 43-48: the text of a group, after its last synalepha if it has one
group_syllable(phonological_group) ==
    IF "synalepha_index" \in DOMAIN phonological_group
    THEN PyFrom(phonological_group.syllable,
                phonological_group.synalepha_index[
                    Len(phonological_group.synalepha_index)] + 1)
    ELSE phonological_group.syllable

\* line 54 raises ValueError when no group of the line is stressed
has_stress(line) ==
    \E i \in DOMAIN line.phonological_groups : line.phonological_groups[i].is_stressed

\* the index of the left-most stressed group instead
first_stress_index(line) ==
    (CHOOSE i \in DOMAIN line.phonological_groups :
        /\ line.phonological_groups[i].is_stressed
        /\ \A j \in 1..(i - 1) : ~line.phonological_groups[j].is_stressed) - 1

\* lines 52-56: the Python index of the right-most stressed group
last_stress_index(line) ==
    (CHOOSE i \in DOMAIN line.phonological_groups :
        /\ line.phonological_groups[i].is_stressed
        /\ \A j \in (i + 1)..Len(line.phonological_groups) :
              ~line.phonological_groups[j].is_stressed) - 1

\* lines 40-59: (ending, syllables_count, offset of the stress) of one line
stressed_ending(line) ==
    << PyFrom([i \in DOMAIN line.phonological_groups |->
                  group_syllable(line.phonological_groups[i])],
              last_stress_index(line)),
       Len(line.phonological_groups),
       last_stress_index(line) - Len(line.phonological_groups) >>

\* lines 35-60, for lines that all have a stressed group
get_stressed_endings(lines) == [i \in DOMAIN lines |-> stressed_ending(lines[i])]

\* the endings of the lines that have a stressed group, the other lines skipped
get_stressed_endings_skipping(lines) ==
    Return(get_stressed_endings(SelectSeq(lines, has_stress)))

\* lines 35-60: line 54 raises ValueError at the first line without a stressed
\* group, and the call returns nothing
get_stressed_endings_or_raise(lines) ==
    IF \A i \in DOMAIN lines : has_stress(lines[i])
    THEN Return(get_stressed_endings(lines))
    ELSE Raise("ValueError: True is not in list")

\* the comparison turned into "not worse than"
improves_or_equals(ranking, best_ranking) ==
    ranking # None /\ The(ranking) <= best_ranking

\* line 254: the trial found a structure of a strictly better rank
improves(ranking, best_ranking) ==
    ranking # None /\ The(ranking) < best_ranking

\* lines 254-265: what a trial leaves, given what get_rhymes returned and the
\* rank that search_structure found for it
analyze_keep(best, assonance, relaxation, res, ranking) ==
    IF improves(ranking, best.best_ranking)
    THEN [stressed_endings |-> res.stressed_endings,
          best_ranking |-> The(ranking),
          best_structure |-> Some(
              [name |-> STRUCTURES[The(ranking) + 1].name,
               rank |-> The(ranking),
               rhyme |-> res.rhymes,
               endings |-> res.unstressed_endings,
               endings_stress |-> res.stresses,
               rhyme_type |-> IF assonance THEN ASSONANT_RHYME ELSE CONSONANT_RHYME,
               rhyme_relaxation |-> relaxation])]
    ELSE [best EXCEPT !.stressed_endings = res.stressed_endings]

\* lines 251-253; "".join(rhymes) of one-character letters is the sequence of
\* the letters, which is how a string is represented here
analyze_search(best, assonance, relaxation, res, rhythmical_lengths) ==
    analyze_keep(best, assonance, relaxation, res,
        search_structure(res.rhymes, rhythmical_lengths,
            IF assonance THEN ASSONANT_RHYME ELSE CONSONANT_RHYME))

\* lines 248, 213: the call raises when rhyme_codes_to_letters runs out of
\* letters
get_rhymes_raises(res) ==
    IndexError \in elements(sorted_rhymes_of(res.rhyme_codes, "-"))

\* line 252: the key that the first line without line["rhythm"]["length"]
\* lacks, "" if every line has it
missing_length(lines) ==
    IF \A i \in DOMAIN lines :
          "rhythm" \in DOMAIN lines[i] /\ "length" \in DOMAIN lines[i].rhythm
    THEN ""
    ELSE LET i == CHOOSE i \in DOMAIN lines :
                     /\ ~("rhythm" \in DOMAIN lines[i]
                          /\ "length" \in DOMAIN lines[i].rhythm)
                     /\ \A j \in 1..(i - 1) :
                           "rhythm" \in DOMAIN lines[j]
                           /\ "length" \in DOMAIN lines[j].rhythm
         IN  IF "rhythm" \in DOMAIN lines[i] THEN "length" ELSE "rhythm"

\* lines 244-265: the trials from position t of TRIALS on; a trial raises
\* IndexError in get_rhymes (line 248) or KeyError at line 252
RECURSIVE analyze_trials(_, _, _, _)
analyze_trials(best, t, lines, offset) ==
    IF t > Len(TRIALS) THEN Return(best)
    ELSE LET res == get_rhymes(best.stressed_endings, TRIALS[t][1], TRIALS[t][2],
                               offset)
             missing == missing_length(lines)
         IN  IF get_rhymes_raises(res)
             THEN Raise("IndexError: string index out of range")
             ELSE IF missing = "rhythm" THEN Raise("KeyError: 'rhythm'")
             ELSE IF missing = "length" THEN Raise("KeyError: 'length'")
             ELSE analyze_trials(
                     analyze_search(best, TRIALS[t][1], TRIALS[t][2], res,
                         [i \in DOMAIN lines |-> lines[i].rhythm.length]),
                     t + 1, lines, offset)

\* lines 237-266: the structure returned, or None, or the exception raised
analyze_rhyme(lines, offset) ==
    LET stressed == get_stressed_endings_or_raise(lines)
        trials == analyze_trials([stressed_endings |-> stressed.value,
                                  best_ranking |-> Len(STRUCTURES),
                                  best_structure |-> None],
                                 1, lines, offset)
    IN  IF stressed.raised # "" THEN stressed
        ELSE IF trials.raised # "" THEN trials
        ELSE Return(trials.value.best_structure)


(***************************************************************************)
(* analyze_rhyme as a state machine: one call on the lines of a stanza     *)
(* (specification SpecAnalyze)                                             *)
(***************************************************************************)
MaxStanza == 4

\* the phonological groups of four lines, ending in "son", "dón", "tado" and
\* (after a synalepha) "él"
SON == << [syllable |-> <<"m","i">>, is_stressed |-> FALSE],
          [syllable |-> <<"s","o","n">>, is_stressed |-> TRUE] >>
DON == << [syllable |-> <<"p","e","r">>, is_stressed |-> FALSE],
          [syllable |-> <<"d","ó","n">>, is_stressed |-> TRUE] >>
TADO == << [syllable |-> <<"c","a","n">>, is_stressed |-> FALSE],
           [syllable |-> <<"t","a">>, is_stressed |-> TRUE],
           [syllable |-> <<"d","o">>, is_stressed |-> FALSE] >>
EL == << [syllable |-> <<"c","o","n">>, is_stressed |-> TRUE],
         [syllable |-> <<"d","e","é","l">>, is_stressed |-> TRUE,
          synalepha_index |-> <<1>>] >>
\* the groups of the line "la", which has no stressed group
LA == << [syllable |-> <<"l","a">>, is_stressed |-> FALSE] >>

\* the lines handed to analyze_rhyme: groups and rhythm length
LINES ==
    {[phonological_groups |-> g, rhythm |-> [length |-> 7]] : g \in {SON, DON, TADO, EL, LA}}
    \cup {[phonological_groups |-> g, rhythm |-> [length |-> 11]] : g \in {TADO, EL}}

AnalyzeOffsets == {Some(2), Some(4)}

InitAnalyze ==
    /\ LettersIdle
    /\ TagIdle
    /\ \E l \in Lists(LINES, MaxStanza) : \E o \in AnalyzeOffsets :
          analyze_args = Some([lines |-> l, offset |-> o])
    /\ analyze_raised = ""
    /\ analyze_result = None
    /\ pc = "analyze_rhyme"
    /\ RhymesIdle
    /\ SearchIdle
    /\ WordIdle
    /\ ScansionIdle

\* one call analyze_rhyme(lines, offset)
AnalyzeRhyme ==
    /\ pc = "analyze_rhyme"
    /\ \E returned \in {analyze_rhyme(The(analyze_args).lines,
                                       The(analyze_args).offset)} :
          /\ analyze_result' = returned.value
          /\ analyze_raised' = returned.raised
    /\ pc' = "returned"
    /\ UNCHANGED <<letters_vars, tag_vars, scansion_vars, analyze_args, rhymes_vars, search_vars, word_vars>>

\* one call get_stressed_endings(lines), on its own
GetStressedEndings ==
    /\ pc = "analyze_rhyme"
    /\ \E returned \in {get_stressed_endings_or_raise(The(analyze_args).lines)} :
          /\ stressed_endings' = returned.value
          /\ analyze_raised' = returned.raised
    /\ pc' = "endings"
    /\ UNCHANGED <<letters_vars, tag_vars, scansion_vars, analyze_args, analyze_result, call, repeated, out,
                   search_vars, word_vars>>

NextAnalyze == AnalyzeRhyme \/ GetStressedEndings

SpecAnalyze == InitAnalyze /\ [][NextAnalyze]_vars

(***************************************************************************)
(* Claims about analyze_rhyme (specification SpecAnalyze)                  *)
(***************************************************************************)
Analyzed == pc = "returned" /\ analyze_args # None /\ analyze_raised = ""

rhyme_type_of(t) == IF TRIALS[t][1] THEN ASSONANT_RHYME ELSE CONSONANT_RHYME

\* what each trial finds, in the order of TRIALS: the rank (or None) and the
\* letters, endings and stresses of its get_rhymes call on the list as the
\* trials before it left it
RECURSIVE trial_outcomes(_, _, _, _)
trial_outcome(res, t, rhythmical_lengths, offset) ==
    << [ranking |-> search_structure(res.rhymes, rhythmical_lengths, rhyme_type_of(t)),
        rhyme |-> res.rhymes,
        endings |-> res.unstressed_endings,
        endings_stress |-> res.stresses] >>
    \o trial_outcomes(res.stressed_endings, t + 1, rhythmical_lengths, offset)
trial_outcomes(endings, t, rhythmical_lengths, offset) ==
    IF t > Len(TRIALS) THEN <<>>
    ELSE trial_outcome(get_rhymes(endings, TRIALS[t][1], TRIALS[t][2], offset),
                       t, rhythmical_lengths, offset)

Outcomes ==
    trial_outcomes(get_stressed_endings(The(analyze_args).lines), 1,
                   [i \in DOMAIN The(analyze_args).lines |->
                       The(analyze_args).lines[i].rhythm.length],
                   The(analyze_args).offset)

Found(o) == {t \in DOMAIN o : o[t].ranking # None}

\* trial t found the minimum rank and no trial before it found that rank
FirstBest(o, t) ==
    /\ t \in Found(o)
    /\ \A u \in Found(o) : The(o[t].ranking) <= The(o[u].ranking)
    /\ \A u \in Found(o) : u < t => The(o[u].ranking) # The(o[t].ranking)

ReturnsBest(o, result) ==
    IF Found(o) = {} THEN result = None
    ELSE /\ result # None
         /\ \E t \in Found(o) :
               /\ FirstBest(o, t)
               /\ The(result).rank = The(o[t].ranking)
               /\ The(result).name = STRUCTURES[The(o[t].ranking) + 1].name
               /\ The(result).rhyme = o[t].rhyme
               /\ The(result).endings = o[t].endings
               /\ The(result).endings_stress = o[t].endings_stress
               /\ The(result).rhyme_type = rhyme_type_of(t)
               /\ The(result).rhyme_relaxation = TRIALS[t][2]

\* C3: analyze_rhyme returns the structure of the minimum rank found by the
\* four trials, with the letters, endings, rhyme type and relaxation flag of
\* the first trial that found that rank, and None iff no trial found a match.
C3_MinimumRankFirstTrial == Analyzed => ReturnsBest(Outcomes, analyze_result)

BestIsLaterTie(o) ==
    /\ \E t \in Found(o) : t < 3 /\ ~FirstBest(o, t)
    /\ FirstBest(o, 3)
    /\ 4 \in Found(o) /\ o[4].ranking = o[3].ranking

\* C3 witness: the consonant trials found a structure, the two assonant trials
\* both found one of a lower rank, and the relaxed one of these was returned.
C3_Witness ==
    /\ Analyzed
    /\ BestIsLaterTie(Outcomes)
    /\ analyze_result # None
    /\ The(analyze_result).rhyme_type = ASSONANT_RHYME
    /\ The(analyze_result).rhyme_relaxation


(***************************************************************************)
(* syllabify and get_word_stress as a state machine: syllabify is called   *)
(* on one word, then get_word_stress on the same word with a part of       *)
(* speech and a tag mapping (specification SpecWord)                       *)
(***************************************************************************)
MaxWord == 3

\* the characters of the short words: vowels with and without accent and in
\* upper case, the "h" of the diphthong rules, the final "n" and "s", and the
\* hyphen
ALPHABET == <<"a","i","h","n","s","á","A","-">>

LONG_WORDS ==
    {<<"d","e","s","t","i","t","u","i","r">>, <<"D","E","S","T","I","T","U","I","R">>, <<"s","i","n","h","u","e","s","o">>, <<"m","a","r","h","u","e","n","d","a">>, <<"c","n","e","o","r","á","c","e","a">>,
     <<"a","h","i","j","a","d","o","r">>, <<"b","u","h","i","t","i","h","o">>, <<"d","e","s","p","r","o","h","i","b","i","r">>, <<"k","i","w","i">>, <<"a","d","l","á","t","e","r","e">>,
     <<"p","i","n","g","ü","i","n","o">>, <<"I","s","r","a","e","l">>, <<"r","á","p","i","d","o">>, <<"c","a","n","c","i","ó","n">>, <<"á","r","b","o","l">>, <<"b","a","b","y">>,
     <<"y","o">>, <<"s","o","l">>, <<"e","l">>, <<"E","l">>, <<"l","a">>, <<"t","u">>, <<"t","ú">>, <<"p","a","n">>, <<"q","u","e">>}

WORDS == Lists(chars(ALPHABET), MaxWord) \cup LONG_WORDS

POS == {"DET", "PRON", "ADP", "NOUN"}
TAGS == {<<>>, [Case |-> "Nom"], [Definite |-> "Ind"]}

InitWord ==
    /\ LettersIdle
    /\ TagIdle
    /\ \E w \in WORDS : word_args = Some(w)
    /\ syllabify_result = None
    /\ stress_args = None
    /\ stress_raised = ""
    /\ stress_result = None
    /\ pc = "syllabify"
    /\ RhymesIdle
    /\ SearchIdle
    /\ AnalyzeIdle
    /\ ScansionIdle

\* one call syllabify(word)
Syllabify ==
    /\ pc = "syllabify"
    /\ syllabify_result' = Some(syllabify(The(word_args)))
    /\ pc' = "get_word_stress"
    /\ UNCHANGED <<letters_vars, tag_vars, scansion_vars, word_args, stress_args, stress_raised, stress_result,
                   rhymes_vars, search_vars, analyze_vars>>

\* one call get_word_stress(word, pos, tag)
GetWordStress(pos, tag) ==
    /\ pc = "get_word_stress"
    /\ stress_args' = Some([pos |-> pos, tag |-> tag])
    /\ IF get_word_stress_raises(The(word_args))
       THEN /\ stress_raised' = "IndexError"
            /\ stress_result' = None
       ELSE /\ stress_raised' = ""
            /\ stress_result' = Some(get_word_stress(The(word_args), pos, tag))
    /\ pc' = "returned"
    /\ UNCHANGED <<letters_vars, tag_vars, scansion_vars, word_args, syllabify_result, rhymes_vars, search_vars, analyze_vars>>

NextWord ==
    \/ Syllabify
    \/ \E pos \in POS : \E tag \in TAGS : GetWordStress(pos, tag)

SpecWord == InitWord /\ [][NextWord]_vars

(***************************************************************************)
(* Claims about syllabify and get_word_stress (specification SpecWord)     *)
(***************************************************************************)
Syllabified == syllabify_result # None
Stressed == pc = "returned" /\ stress_result # None

\* the indexes of the syllables marked is_stressed in a returned dictionary
marked(res) == {i \in DOMAIN res.word : res.word[i].is_stressed}

\* C8: the dictionary get_word_stress returns marks exactly one syllable as
\* stressed when the word has two or more syllables and at most one when it
\* has one; a stress_position other than 0 lies between -len(syllables) and
\* -1 and names the marked syllable, and with stress_position 0 no syllable
\* is marked.
C8_OneStressedSyllable ==
    Stressed =>
        LET res == The(stress_result)
            n == Len(res.word)
            position == res.stress_position
        IN  /\ n >= 2 => Cardinality(marked(res)) = 1
            /\ n = 1 => Cardinality(marked(res)) <= 1
            /\ position # 0 => /\ -n <= position
                               /\ position <= -1
                               /\ marked(res) = {n + position + 1}
            /\ position = 0 => marked(res) = {}

\* a word of three or more syllables whose accent is not on the last one
C8_Witness ==
    /\ Stressed
    /\ Len(The(stress_result).word) >= 3
    /\ The(stress_result).stress_position = -3
    /\ get_orthographic_accent(The(syllabify_result)[1]) # None

without_hyphens(word) == SelectSeq(word, LAMBDA c : c # "-")

\* C9: for a word that is not in the dictionary of foreign words, the
\* syllables syllabify returns, put together, are the characters of the word
\* in their order, none lost and none twice, the hyphens aside.
C9_SyllablesSpellTheWord ==
    (Syllabified /\ The(word_args) \notin DOMAIN SYLLABIFICATOR_FOREIGN_WORDS_DICT)
        => join(The(syllabify_result)[1]) = without_hyphens(The(word_args))

\* a word on which a pre-rule put a hyphen and a post-rule took one away
C9_Witness ==
    /\ Syllabified
    /\ The(word_args) \notin DOMAIN SYLLABIFICATOR_FOREIGN_WORDS_DICT
    /\ apply_exception_rules(The(word_args)) # The(word_args)
    /\ LET output == scan(apply_exception_rules(The(word_args)))
       IN  apply_exception_rules_post(output) # output
    /\ Len(The(syllabify_result)[1]) >= 3

(***************************************************************************)
(* Claims about get_stressed_endings (specification SpecAnalyze)           *)
(***************************************************************************)
EndingsTaken == pc = "endings" /\ analyze_raised = ""

\* the text a group gives to an ending: what follows its last synalepha
ending_text(group) ==
    IF "synalepha_index" \in DOMAIN group
    THEN SubSeq(group.syllable,
                group.synalepha_index[Len(group.synalepha_index)] + 2,
                Len(group.syllable))
    ELSE group.syllable

\* the 1-based position of the right-most stressed group of a line
rightmost_stressed(groups) ==
    CHOOSE k \in DOMAIN groups :
        groups[k].is_stressed /\ \A j \in (k + 1)..Len(groups) : ~groups[j].is_stressed

\* C11: for a line with a stressed group, get_stressed_endings returns the
\* number of groups as count, the texts of the groups from the right-most
\* stressed group to the end of the line as ending, and that group's index
\* minus count as offset; so ending is not empty, offset is -len(ending) and
\* ending[offset] is the text of the stressed group.
C11_EndingFromLastStress ==
    EndingsTaken =>
        \A i \in DOMAIN stressed_endings :
            LET groups == The(analyze_args).lines[i].phonological_groups
                k == rightmost_stressed(groups)
                ending == stressed_endings[i][1]
                count == stressed_endings[i][2]
                offset == stressed_endings[i][3]
            IN  /\ count = Len(groups)
                /\ Len(ending) = count - k + 1
                /\ \A j \in DOMAIN ending : ending[j] = ending_text(groups[k + j - 1])
                /\ offset = (k - 1) - count
                /\ ending # <<>>
                /\ offset = -Len(ending)
                /\ ending[Len(ending) + offset + 1] = ending_text(groups[k])

\* a stanza with a line of two stressed groups and a line that goes on after
\* its stressed group
C11_Witness ==
    /\ EndingsTaken
    /\ \E i \in DOMAIN stressed_endings :
          Cardinality({k \in DOMAIN The(analyze_args).lines[i].phonological_groups :
              The(analyze_args).lines[i].phonological_groups[k].is_stressed}) = 2
    /\ \E i \in DOMAIN stressed_endings : stressed_endings[i][3] = -2

(***************************************************************************)
(* Claims about the stress of a monosyllable (specification SpecWord)      *)
(***************************************************************************)
Monosyllable == Stressed /\ Len(The(stress_result).word) = 1

the_syllable == str_lower(The(stress_result).word[1].syllable)

InUnstressedSet == the_syllable \in UNSTRESSED_UNACCENTED_MONOSYLLABLES

Override ==
    LET pos == The(stress_args).pos
        tag == The(stress_args).tag
    IN  \/ the_syllable \in STRESSED_UNACCENTED_MONOSYLLABLES
        \/ pos \notin {"DET", "PRON", "ADP"}
        \/ pos = "PRON" /\ "Case" \in DOMAIN tag /\ tag["Case"] = "Nom"
        \/ pos = "DET" /\ "Definite" \in DOMAIN tag /\ tag["Definite"] = "Ind"

\* C12 as stated: a one-syllable word gets stress_position 0 only when its
\* syllable is in the unstressed set and no override holds, and -1 in every
\* other case.
C12_UnstressedOnlyWithoutOverride ==
    Monosyllable =>
        The(stress_result).stress_position =
            (IF InUnstressedSet /\ ~Override THEN 0 ELSE -1)

\* C12 as the code has it: a one-syllable word gets stress_position -1 exactly
\* when its syllable is not in the unstressed set and an override holds, and 0
\* in every other case.
C12_StressedOnlyWithOverride ==
    Monosyllable =>
        The(stress_result).stress_position =
            (IF ~InUnstressedSet /\ Override THEN -1 ELSE 0)

\* a monosyllable outside the unstressed set, without override, left unstressed
C12_Witness ==
    /\ Monosyllable
    /\ ~InUnstressedSet
    /\ ~Override
    /\ The(stress_result).stress_position = 0

(***************************************************************************)
(* The rhyme coder on lines whose stressed syllable has no vowel           *)
(* (specification SpecVerses): a line ending in "... y la", where the      *)
(* conjunction "y" carries the last stress, gives the ending y-la          *)
(***************************************************************************)
MaxVerses == 2

Y_LA == << << <<"y">>, <<"l","a">> >>, 8, -2 >>

InitVerses ==
    /\ LettersIdle
    /\ TagIdle
    /\ stressed_endings \in Lists(ENDINGS \cup {Y_LA}, MaxVerses)
    /\ call = None
    /\ repeated = FALSE
    /\ out = None
    /\ pc = "get_rhymes"
    /\ SearchIdle
    /\ AnalyzeIdle
    /\ WordIdle
    /\ ScansionIdle

SpecVerses == InitVerses /\ [][Next]_vars

\* C13: the letters, the ending texts and the stress offsets returned by
\* get_rhymes all have one entry per line of the stressed endings.
C13_OneEntryPerLine ==
    out # None =>
        /\ Len(The(out).rhymes) = Len(stressed_endings)
        /\ Len(The(out).unstressed_endings) = Len(stressed_endings)
        /\ Len(The(out).stresses) = Len(stressed_endings)

(***************************************************************************)
(* Claims about syllabify("destituir") (specification SpecWord)            *)
(***************************************************************************)
DestituirSyllabified ==
    /\ Syllabified
    /\ The(word_args) = <<"d","e","s","t","i","t","u","i","r">>
    /\ The(word_args) \notin DOMAIN SYLLABIFICATOR_FOREIGN_WORDS_DICT

\* C15 as stated: syllabify("destituir") applies the 'des' + consonant
\* pre-rule and returns the four syllables des, ti, tu, ir.
C15_DestituirFourSyllables ==
    DestituirSyllabified =>
        /\ apply_exception_rules(The(word_args))
              = <<"d","e","s","-","t","i","t","u","i","r">>
        /\ The(syllabify_result)[1]
              = << <<"d","e","s">>, <<"t","i">>, <<"t","u">>, <<"i","r">> >>

\* C15 as the code has it: syllabify("destituir") applies the 'des' +
\* consonant pre-rule and returns the three syllables des, ti, tuir.
C15_DestituirThreeSyllables ==
    DestituirSyllabified =>
        /\ apply_exception_rules(The(word_args))
              = <<"d","e","s","-","t","i","t","u","i","r">>
        /\ The(syllabify_result)[1]
              = << <<"d","e","s">>, <<"t","i">>, <<"t","u","i","r">> >>

\* "destituir" was syllabified, the pre-rule having split it after "des"
C15_Witness ==
    /\ DestituirSyllabified
    /\ split_greedy(The(word_args), "PREFIX_DES_WITH_CONSONANT_RE") # The(word_args)
    /\ Len(The(syllabify_result)[1]) = 3

(***************************************************************************)
(* Claims about the offset of assign_letter_codes (specification Spec)     *)
(***************************************************************************)
\* line j has a code that is not unrhymed, and the last earlier line with
\* that code is more than the offset away
RecursBeyondOffset(j) ==
    /\ The(call).offset # None
    /\ The(out).ending_codes[j] \notin The(out).unrhymed_verses
    /\ NearestEarlier(j) # 0
    /\ j - NearestEarlier(j) > The(The(call).offset)

\* no later line has the code of line j
LastOccurrence(j) ==
    \A i \in LineSet : i > j => The(out).ending_codes[i] # The(out).ending_codes[j]

\* C16: when a code recurs on a line farther from its previous occurrence
\* than the offset, the line keeps its rhyme id and its ending text (here for
\* the last line of a code, which no later line can turn unrhymed).
C16_RecurringLineKeepsRhyme ==
    Called =>
        \A j \in LineSet :
            (RecursBeyondOffset(j) /\ LastOccurrence(j))
                => /\ The(out).rhyme_codes[j] >= 0
                   /\ The(out).endings[j]
                        = The(out).codes[The(out).ending_codes[j] + 1]

(***************************************************************************)
(* Claims about the caller's list of stressed endings (specification Spec) *)
(***************************************************************************)
\* C20: a call of get_rhymes, and so of get_clean_codes, leaves the stressed
\* endings it is given as they were: every ending holds the same syllable
\* strings after the call as before.
C20_EndingsLeftUnchanged == [][stressed_endings' = stressed_endings]_vars

(***************************************************************************)
(* core.py: the rhythmical analysis of a line                              *)
(***************************************************************************)
\* lines 65-66
LIAISON_FIRST_PART ==
    chars(<<"a","e","i","o","u","á","é","í","ó","ú",
            "A","E","I","O","U","Á","É","Í","Ó","Ú","y">>)
LIAISON_SECOND_PART ==
    chars(<<"a","e","i","o","u","á","é","í","ó","ú",
            "A","E","I","O","U","Á","É","Í","Ó","Ú","h","y">>)

\* lines 117-126
have_prosodic_liaison(first_syllable, second_syllable) ==
    /\ first_syllable.syllable[Len(first_syllable.syllable)] \in LIAISON_FIRST_PART
    /\ second_syllable.syllable[1] \in LIAISON_SECOND_PART

\* d.get(key) taken as a condition, for the flags of a syllable
flag(d, key) == key \in DOMAIN d /\ d[key] = TRUE

\* d.update({key: value})
update(d, key, value) == (key :> value) @@ d

\* the fold with the stress of the first syllable alone
joined_syllable_first_stress(first, second, key) ==
    update([is_stressed |-> first.is_stressed,
            syllable |-> first.syllable \o second.syllable],
           key, TRUE)

\* lines 164-170: the syllable made of a flagged one and the one after it
joined_syllable(first, second, key) ==
    update([is_stressed |-> first.is_stressed \/ second.is_stressed,
            syllable |-> first.syllable \o second.syllable],
           key, TRUE)

\* list.pop(idx) of a 0-based index that the list has
without(list, idx) == SubSeq(list, 1, idx) \o SubSeq(list, idx + 2, Len(list))

\* lines 160-171: idx is 0-based, the list shrinks while it is walked
RECURSIVE get_sinaeresis_loop(_, _, _)
get_sinaeresis_loop(sinaeresis_words, idx, phonological_syllables) ==
    IF idx >= Len(sinaeresis_words) THEN Return(phonological_syllables)
    ELSE LET key == sinaeresis_words[idx + 1]
         IN  IF ~flag(key, "has_sinaeresis")
             THEN get_sinaeresis_loop(sinaeresis_words, idx + 1,
                                      Append(phonological_syllables, key))
             ELSE IF idx + 1 >= Len(sinaeresis_words)
             THEN Raise("IndexError: pop index out of range")
             ELSE get_sinaeresis_loop(
                      without(sinaeresis_words, idx + 1), idx + 1,
                      Append(phonological_syllables,
                             joined_syllable(key, sinaeresis_words[idx + 2],
                                             "has_sinaeresis")))

\* lines 152-171
get_sinaeresis(words_dictionary) == get_sinaeresis_loop(words_dictionary, 0, <<>>)

\* lines 139-149: idx is the 0-based word, at the 0-based syllable of it
RECURSIVE get_synalephas_loop(_, _, _, _)
get_synalephas_loop(word_list, idx, at, prosodic_line) ==
    IF idx >= Len(word_list) THEN Return(prosodic_line)
    ELSE IF at >= Len(word_list[idx + 1])
    THEN get_synalephas_loop(word_list, idx + 1, 0, prosodic_line)
    ELSE LET syllable == word_list[idx + 1][at + 1]
         IN  IF ~flag(syllable, "has_synalepha")
             THEN get_synalephas_loop(word_list, idx, at + 1,
                                      Append(prosodic_line, syllable))
             ELSE IF idx + 1 >= Len(word_list)
             THEN Raise("IndexError: list index out of range")
             ELSE IF Len(word_list[idx + 2]) = 0
             THEN Raise("IndexError: pop from empty list")
             ELSE get_synalephas_loop(
                      [word_list EXCEPT ![idx + 2] = Tail(@)], idx, at + 1,
                      Append(prosodic_line,
                             joined_syllable(syllable, word_list[idx + 2][1],
                                             "has_synalepha")))

\* lines 129-149
get_synalephas(sinaeresis_words) == get_synalephas_loop(sinaeresis_words, 0, 0, <<>>)

\* token.get('word'): the token is a word with syllables
is_word(token) == "word" \in DOMAIN token /\ token.word # <<>>

\* lines 187-189: the words of the line, each after get_sinaeresis
sinaeresis_tokens_of(token_list) ==
    LET words == SelectSeq(token_list, is_word)
        folded == [i \in DOMAIN words |-> get_sinaeresis(words[i].word)]
    IN  IF \E i \in DOMAIN folded : folded[i].raised # ""
        THEN Raise(folded[CHOOSE i \in DOMAIN folded :
                              /\ folded[i].raised # ""
                              /\ \A j \in 1..(i - 1) : folded[j].raised = ""].raised)
        ELSE Return([i \in DOMAIN folded |-> folded[i].value])

\* lines 191-193: the groups that have a text
has_syllable(token) == "syllable" \in DOMAIN token /\ token.syllable # <<>>

\* lines 194-198
stress_marks(synalepha_token_list) ==
    [i \in DOMAIN synalepha_token_list |->
        IF synalepha_token_list[i].is_stressed THEN "+" ELSE "-"]

\* rhythmical_stress[:-1]
but_last(rhythmical_stress) == SubSeq(rhythmical_stress, 1, Len(rhythmical_stress) - 1)

\* lines 200-210: the correction for the stress of the last word
end_of_line(rhythmical_stress, last_word) ==
    IF last_word[Len(last_word)].is_stressed
    THEN Append(rhythmical_stress, "-")
    ELSE IF Len(last_word) >= 3
    THEN (IF last_word[Len(last_word) - 2].is_stressed
          THEN but_last(rhythmical_stress) ELSE rhythmical_stress)
    ELSE IF Len(last_word) > 3
    THEN (IF last_word[Len(last_word) - 3].is_stressed
          THEN but_last(rhythmical_stress) ELSE rhythmical_stress)
    ELSE rhythmical_stress

\* [match.start() for match in re.finditer(r'\+', rhythmical_stress)]
RECURSIVE finditer_starts(_, _)
finditer_starts(rhythmical_stress, from) ==
    IF from > Len(rhythmical_stress) THEN <<>>
    ELSE (IF rhythmical_stress[from] = "+" THEN <<from - 1>> ELSE <<>>)
         \o finditer_starts(rhythmical_stress, from + 1)

\* lines 182, 211-220: any other format leaves the dictionary empty
rhythm_dict(rhythmical_stress, rhythm_format) ==
    IF rhythm_format = "indexed"
    THEN [rhythm |-> [rhythmical_stress |-> finditer_starts(rhythmical_stress, 1)],
          type |-> rhythm_format]
    ELSE IF rhythm_format = "pattern"
    THEN [rhythm |-> [rhythmical_stress |-> rhythmical_stress, type |-> rhythm_format]]
    ELSE [key \in {} |-> key]

\* lines 190-223, given the words after get_sinaeresis and the line after
\* get_synalephas
rhythmical_pattern_of(sinaeresis_tokens, synalepha_token_list, rhythm_format) ==
    IF sinaeresis_tokens = <<>>
    THEN Raise("IndexError: list index out of range")
    ELSE LET rhythmical_stress ==
                 end_of_line(stress_marks(synalepha_token_list),
                             sinaeresis_tokens[Len(sinaeresis_tokens)])
         IN  Return(
                 [phonological_groups |-> SelectSeq(synalepha_token_list, has_syllable),
                  rhythmical_length |-> Len(rhythmical_stress)]
                 @@ rhythm_dict(rhythmical_stress, rhythm_format))

rhythmical_pattern_folded(folded, rhythm_format) ==
    IF folded.raised # "" THEN folded
    ELSE LET synalephas == get_synalephas(folded.value)
         IN  IF synalephas.raised # "" THEN synalephas
             ELSE rhythmical_pattern_of(folded.value, synalephas.value,
                                        rhythm_format)

\* lines 174-223
get_rhythmical_pattern(line, rhythm_format) ==
    rhythmical_pattern_folded(sinaeresis_tokens_of(line.tokens), rhythm_format)

(***************************************************************************)
(* core.py: get_syllables and get_scansion                                 *)
(* A token is [text, pos_, tag_, is_alpha]; its tag_ is given as lexemes:  *)
(* the names and the separators "__", "|" and "=".                         *)
(***************************************************************************)
\* str.split(sep) of a text given as its lexemes
RECURSIVE split(_, _)
split(s, sep) ==
    IF sep \in elements(s)
    THEN <<SubSeq(s, 1, first_index(s, sep) - 1)>>
         \o split(SubSeq(s, first_index(s, sep) + 1, Len(s)), sep)
    ELSE <<s>>

\* a text that is one name, as that name
name_of(s) == IF Len(s) = 1 THEN s[1] ELSE ""

\* dict(pairs): a later pair with the same key wins
dict(pairs) ==
    [k \in {name_of(pairs[i][1]) : i \in DOMAIN pairs} |->
        name_of(pairs[CHOOSE i \in DOMAIN pairs :
                          /\ name_of(pairs[i][1]) = k
                          /\ \A j \in (i + 1)..Len(pairs) : name_of(pairs[j][1]) # k][2])]

\* line 358: [t.split('=') for t in tag.split('|')]
tag_pieces(tag) ==
    [i \in DOMAIN split(tag, "|") |-> split(split(tag, "|")[i], "=")]

\* lines 357-358: dict() takes pairs only; a piece without "=" or with more
\* than one "=" is not a pair, and dict() raises ValueError
spacy_tag_to_dict_raises(tag) ==
    /\ tag # <<>>
    /\ "=" \in elements(tag)
    /\ \E i \in DOMAIN tag_pieces(tag) : Len(tag_pieces(tag)[i]) # 2

\* lines 350-360: the mapping returned when the call does not raise
spacy_tag_to_dict(tag) ==
    IF tag # <<>> /\ "=" \in elements(tag)
    THEN dict(tag_pieces(tag))
    ELSE <<>>

\* lines 435-440: pos and tags of a word, for a tag_ with at most one "__"
pos_of(word) ==
    IF "__" \in elements(word.tag_)
    THEN name_of(split(word.tag_, "__")[1])
    ELSE word.pos_

tags_of(word) ==
    spacy_tag_to_dict(IF "__" \in elements(word.tag_)
                      THEN split(word.tag_, "__")[2]
                      ELSE word.tag_)

\* line 440: the call of spacy_tag_to_dict on the tag of the word raises
tag_raises(word) ==
    spacy_tag_to_dict_raises(IF "__" \in elements(word.tag_)
                             THEN split(word.tag_, "__")[2]
                             ELSE word.tag_)

\* lines 413-422: the 1-based place of the last word among the tokens, or 0
last_word_index(token_list) ==
    Max({0} \cup {i \in DOMAIN token_list : "word" \in DOMAIN token_list[i]})

\* lines 441-446: the flag put on the last syllable of the word before
with_synalepha(syllabified_words, second_syllable) ==
    LET at == last_word_index(syllabified_words)
    IN  IF at = 0 THEN syllabified_words
        ELSE LET word == syllabified_words[at].word
             IN  IF have_prosodic_liaison(word[Len(word)], second_syllable)
                 THEN SubSeq(syllabified_words, 1, at - 1)
                      \o << [word |-> Append(but_last(word),
                                            update(word[Len(word)], "has_synalepha", TRUE)),
                             stress_position |-> syllabified_words[at].stress_position] >>
                      \o SubSeq(syllabified_words, at + 1, Len(syllabified_words))
                 ELSE syllabified_words

\* lines 441-447
with_word(syllabified_words, stressed_word) ==
    Append(with_synalepha(syllabified_words, stressed_word.word[1]), stressed_word)

\* lines 432-449
RECURSIVE get_syllables_loop(_, _)
get_syllables_loop(word_list, syllabified_words) ==
    IF word_list = <<>> THEN Return(syllabified_words)
    ELSE LET word == Head(word_list)
         IN  IF ~word.is_alpha
             THEN get_syllables_loop(Tail(word_list),
                      Append(syllabified_words, [symbol |-> word.text]))
             ELSE IF tag_raises(word)
             THEN Raise("ValueError: dictionary update sequence element")
             ELSE IF get_word_stress_raises(word.text)
             THEN Raise("IndexError: list index out of range")
             ELSE get_syllables_loop(Tail(word_list),
                      with_word(syllabified_words,
                                get_word_stress(word.text, pos_of(word), tags_of(word))))

\* lines 425-449
get_syllables(word_list) == get_syllables_loop(word_list, <<>>)

\* lines 464-473: the tokens of each line
RECURSIVE seen_lines(_, _, _)
seen_lines(tokens, seen_tokens, lines) ==
    IF tokens = <<>>
    THEN (IF Len(seen_tokens) > 0 THEN Append(lines, seen_tokens) ELSE lines)
    ELSE IF /\ Head(tokens).pos_ = "SPACE"
            /\ "\n" \in elements(Head(tokens).text)
            /\ Len(seen_tokens) > 0
         THEN seen_lines(Tail(tokens), <<>>, Append(lines, seen_tokens))
         ELSE seen_lines(Tail(tokens), Append(seen_tokens, Head(tokens)), lines)

\* the calls are made in order: the first that raises ends them, otherwise
\* the values they returned are collected
RECURSIVE all_returned_from(_, _, _)
all_returned_from(calls, i, values) ==
    IF i \notin DOMAIN calls THEN Return(values)
    ELSE LET returned == calls[i]
         IN  IF returned.raised # "" THEN Raise(returned.raised)
             ELSE all_returned_from(calls, i + 1, Append(values, returned.value))

all_returned(calls) == all_returned_from(calls, 1, <<>>)

\* lines 482-493: the fields a line takes from the structure; index is 0-based
line_with_rhyme(line, rhyme, index) ==
    LET ending_stress == rhyme.endings_stress[index + 1]
    IN  [structure |-> rhyme.name,
         rhyme |-> rhyme.rhyme[index + 1],
         ending |-> rhyme.endings[index + 1],
         ending_stress |-> ending_stress,
         rhyme_type |-> IF ending_stress = 0 THEN "" ELSE rhyme.rhyme_type,
         rhyme_relaxation |-> IF ending_stress = 0 THEN None
                              ELSE Some(rhyme.rhyme_relaxation)]
        @@ line

\* lines 481-493: the fields of the structure written on every line
lines_with_rhyme(lines, analyzed_lines) ==
    IF analyzed_lines = None THEN Return(lines)
    ELSE IF \E i \in DOMAIN lines : i > Len(The(analyzed_lines).endings_stress)
    THEN Raise("IndexError: list index out of range")
    ELSE Return([i \in DOMAIN lines |->
                    line_with_rhyme(lines[i], The(analyzed_lines), i - 1)])

\* lines 479-493: analyze_rhyme(lines), with its default offset of 4, raises
\* ValueError for a line without stressed group (rhymes.py:54), IndexError
\* when the letters run out (rhymes.py:248) and KeyError for a line without
\* rhythm or whose rhythm has no "length" (rhymes.py:252)
analyzed(lines) ==
    LET returned == analyze_rhyme(lines, Some(4))
    IN  IF returned.raised # "" THEN returned
        ELSE lines_with_rhyme(lines, returned.value)

\* lines 474-476: each line with its rhythmical pattern
scanned_lines(syllables, patterns) ==
    IF patterns.raised # "" THEN patterns
    ELSE Return([i \in DOMAIN patterns.value |->
                    patterns.value[i] @@ [tokens |-> syllables[i]]])

scansion_of(syllables, rhyme_analysis, rhythm_format) ==
    IF syllables.raised # "" THEN syllables
    ELSE LET lines == scanned_lines(syllables.value,
                          all_returned([i \in DOMAIN syllables.value |->
                              get_rhythmical_pattern([tokens |-> syllables.value[i]],
                                                     rhythm_format)]))
         IN  IF lines.raised # "" \/ ~rhyme_analysis THEN lines
             ELSE analyzed(lines.value)

\* lines 464-473: the syllables of the words of each line of the text
syllables_of_lines(tokens) ==
    all_returned([i \in DOMAIN seen_lines(tokens, <<>>, <<>>) |->
                     get_syllables(seen_lines(tokens, <<>>, <<>>)[i])])

\* lines 452-494
get_scansion(tokens, rhyme_analysis, rhythm_format) ==
    scansion_of(syllables_of_lines(tokens), rhyme_analysis, rhythm_format)

(***************************************************************************)
(* get_scansion as a state machine: one call on the tokens of a text, and  *)
(* get_stressed_endings on the lines it returned (specification            *)
(* SpecScansion)                                                           *)
(***************************************************************************)
MaxTokens == 3

\* the tokens of a parsed text: text, pos_, tag_, is_alpha
Token(text, pos_, tag_, is_alpha) ==
    [text |-> text, pos_ |-> pos_, tag_ |-> tag_, is_alpha |-> is_alpha]

TOKENS == {
    Token(<<"l","a">>, "DET",
          <<"DET", "__", "Definite", "=", "Def", "|", "PronType", "=", "Art">>, TRUE),
    Token(<<"a","l","m","a">>, "NOUN", <<>>, TRUE),
    Token(<<"p","o","e","t","a">>, "NOUN", <<>>, TRUE),
    Token(<<"l","e","a">>, "VERB", <<>>, TRUE),
    Token(<<"r","á","p","i","d","o">>, "ADJ", <<>>, TRUE),
    Token(<<"c","ó","m","e","t","e","l","o">>, "VERB", <<>>, TRUE),
    Token(<<"y">>, "CCONJ", <<>>, TRUE),
    Token(<<",">>, "PUNCT", <<>>, FALSE),
    Token(<<"\n">>, "SPACE", <<>>, FALSE) }

\* the two formats of lines 211-220 and the "index" of the docstring
FORMATS == {"pattern", "indexed", "index"}

InitScansion ==
    /\ LettersIdle
    /\ TagIdle
    /\ \E tokens \in Lists(TOKENS, MaxTokens) : scansion_args = Some(tokens)
    /\ scansion_raised = ""
    /\ scansion_result = None
    /\ pc = "get_scansion"
    /\ RhymesIdle
    /\ SearchIdle
    /\ AnalyzeIdle
    /\ WordIdle

\* the call's effect on the state, given its arguments and its value
GetScansionReturn(rhyme_analysis, rhythm_format, scansion) ==
    /\ scansion_raised' = scansion.raised
    /\ scansion_result' = Some([rhyme_analysis |-> rhyme_analysis,
                                 rhythm_format |-> rhythm_format,
                                 lines |-> scansion.value])
    /\ pc' = "scanned"
    /\ UNCHANGED <<letters_vars, tag_vars, scansion_args, rhymes_vars, search_vars, analyze_vars, word_vars>>

\* one call get_scansion(text, rhyme_analysis, rhythm_format), for every value
\* of the two flags: lines 464-473 do not read them, so the syllables of the
\* text are the same for all of them
GetScansion ==
    /\ pc = "get_scansion"
    /\ \E syllables \in {syllables_of_lines(The(scansion_args))} :
          \E rhyme_analysis \in BOOLEAN, rhythm_format \in FORMATS :
              GetScansionReturn(rhyme_analysis, rhythm_format,
                                scansion_of(syllables, rhyme_analysis,
                                            rhythm_format))

\* one call get_stressed_endings(lines) on the lines get_scansion returned
GetStressedEndingsOfScansion ==
    /\ pc = "scanned"
    /\ scansion_raised = ""
    /\ \E returned \in {get_stressed_endings_or_raise(The(scansion_result).lines)} :
          /\ stressed_endings' = returned.value
          /\ analyze_raised' = returned.raised
    /\ pc' = "endings"
    /\ UNCHANGED <<letters_vars, tag_vars, scansion_vars, analyze_args, analyze_result, call, repeated, out,
                   search_vars, word_vars>>

NextScansion ==
    \/ GetScansion
    \/ GetStressedEndingsOfScansion

SpecScansion == InitScansion /\ [][NextScansion]_vars

(***************************************************************************)
(* Claims about the rhythmical pattern (specification SpecScansion)        *)
(***************************************************************************)
Scanned == scansion_result # None /\ scansion_raised = ""
ScannedLines == The(scansion_result).lines

\* the last word of a line, after get_sinaeresis
LastWord(line) ==
    LET words == sinaeresis_tokens_of(line.tokens).value
    IN  words[Len(words)]

\* the last word has more than 3 syllables and is stressed on the 4th from
\* last, not on the 3rd from last nor on the last
StressedOnFourthFromLast(last_word) ==
    /\ Len(last_word) > 3
    /\ ~last_word[Len(last_word)].is_stressed
    /\ ~last_word[Len(last_word) - 2].is_stressed
    /\ last_word[Len(last_word) - 3].is_stressed

\* C17: a line whose last word is stressed on its 4th syllable from the end
\* has a rhythmical_length of one less than the number of its phonological
\* groups, and the rhythmical_length of any line differs from the number of
\* its groups by at most 1.
C17_FourthFromLastShortens ==
    Scanned =>
        \A i \in DOMAIN ScannedLines :
            LET line == ScannedLines[i]
                groups == Len(line.phonological_groups)
            IN  /\ StressedOnFourthFromLast(LastWord(line))
                      => line.rhythmical_length = groups - 1
                /\ line.rhythmical_length \in {groups - 1, groups, groups + 1}

(***************************************************************************)
(* Claims about the folds of a line (specification SpecScansion)           *)
(***************************************************************************)
\* the syllables of the words of a line as get_syllables left them, in
\* order, each with the place of its word among the tokens
RECURSIVE FlatSyllables(_, _)
FlatSyllables(tokens, at) ==
    IF at > Len(tokens) THEN <<>>
    ELSE (IF "word" \in DOMAIN tokens[at]
          THEN [j \in DOMAIN tokens[at].word |->
                   [syllable |-> tokens[at].word[j].syllable,
                    is_stressed |-> tokens[at].word[j].is_stressed,
                    has_sinaeresis |-> flag(tokens[at].word[j], "has_sinaeresis"),
                    has_synalepha |-> flag(tokens[at].word[j], "has_synalepha"),
                    word |-> at]]
          ELSE <<>>)
         \o FlatSyllables(tokens, at + 1)

\* the texts of the syllables from..to, put together
TextOf(flat, from, to) == join([k \in 1..(to - from + 1) |-> flat[from + k - 1].syllable])

\* the syllable at which the text that starts at from is complete, or 0
BlockEnd(flat, from, text) ==
    IF \E to \in from..Len(flat) : TextOf(flat, from, to) = text
    THEN Min({to \in from..Len(flat) : TextOf(flat, from, to) = text})
    ELSE 0

\* the syllables that each group is made of, as long as the texts agree
RECURSIVE Blocks(_, _, _)
Blocks(groups, flat, from) ==
    IF groups = <<>> THEN <<>>
    ELSE IF BlockEnd(flat, from, Head(groups).syllable) = 0 THEN <<>>
    ELSE <<[from |-> from, to |-> BlockEnd(flat, from, Head(groups).syllable)]>>
         \o Blocks(Tail(groups), flat, BlockEnd(flat, from, Head(groups).syllable) + 1)

\* every syllable of the line is in exactly one group, the order kept
Conserved(groups, flat, blocks) ==
    /\ Len(blocks) = Len(groups)
    /\ IF blocks = <<>> THEN flat = <<>> ELSE blocks[Len(blocks)].to = Len(flat)
    /\ join([k \in DOMAIN groups |-> groups[k].syllable])
          = join([k \in DOMAIN flat |-> flat[k].syllable])

\* a group is stressed iff one of its syllables was
StressKept(groups, flat, blocks) ==
    \A k \in DOMAIN blocks :
        groups[k].is_stressed
            <=> \E m \in blocks[k].from..blocks[k].to : flat[m].is_stressed

\* two syllables are in one group only where the first one carried the flag
\* of a fold: each fold made one syllable of two
FoldsPerformed(flat, blocks) ==
    \A k \in DOMAIN blocks :
        \A m \in blocks[k].from..(blocks[k].to - 1) :
            IF flat[m].word = flat[m + 1].word
            THEN flat[m].has_sinaeresis
            ELSE flat[m].has_synalepha

\* the lines of the text that have no word
NoWordLine ==
    \E i \in DOMAIN seen_lines(The(scansion_args), <<>>, <<>>) :
        \A j \in DOMAIN seen_lines(The(scansion_args), <<>>, <<>>)[i] :
            ~seen_lines(The(scansion_args), <<>>, <<>>)[i][j].is_alpha

\* C19: in every line returned, the phonological groups are the syllables of
\* the line's words in order, joined two by two where a fold was flagged, so
\* that texts are conserved and the count drops by one per fold; a group is
\* stressed iff one of its syllables was; and no fold pops past the end of a
\* list (an IndexError comes only from a line without words).
C19_FoldsConserveTextAndStress ==
    /\ scansion_raised \notin {"IndexError: pop index out of range",
                               "IndexError: pop from empty list"}
    /\ scansion_raised = "IndexError: list index out of range" => NoWordLine
    /\ Scanned =>
          \A i \in DOMAIN ScannedLines :
              LET groups == ScannedLines[i].phonological_groups
                  flat == FlatSyllables(ScannedLines[i].tokens, 1)
                  blocks == Blocks(groups, flat, 1)
              IN  /\ Conserved(groups, flat, blocks)
                  /\ StressKept(groups, flat, blocks)
                  /\ FoldsPerformed(flat, blocks)
                  /\ Len(groups) = Len(flat) - Cardinality(
                        {m \in 1..(Len(flat) - 1) :
                            \E k \in DOMAIN blocks :
                                blocks[k].from <= m /\ m < blocks[k].to})

\* a line with a sinaeresis and a synalepha, each making a stressed group
C19_Witness ==
    /\ Scanned
    /\ \E i \in DOMAIN ScannedLines :
          LET groups == ScannedLines[i].phonological_groups
              flat == FlatSyllables(ScannedLines[i].tokens, 1)
          IN  /\ Len(groups) = Len(flat) - 2
              /\ \E k \in DOMAIN groups :
                    flag(groups[k], "has_sinaeresis") /\ groups[k].is_stressed
              /\ \E k \in DOMAIN groups :
                    flag(groups[k], "has_synalepha") /\ groups[k].is_stressed

(***************************************************************************)
(* Claims about the endings of scanned lines (specification SpecScansion)  *)
(***************************************************************************)
ScannedEndings == Scanned /\ pc = "endings" /\ analyze_raised = ""

\* the part of a group that belongs to its last word: the texts of the
\* syllables of the block that come from the word of its last syllable
RhymingPart(flat, block) ==
    TextOf(flat,
           Min({m \in block.from..block.to : flat[m].word = flat[block.to].word}),
           block.to)

\* C18: in the ending of a scanned line, the text of a group that a synalepha
\* made of the syllables of two words is the part of its last word only.
C18_EndingWithoutPrecedingWord ==
    ScannedEndings =>
        \A i \in DOMAIN ScannedLines :
            LET groups == ScannedLines[i].phonological_groups
                flat == FlatSyllables(ScannedLines[i].tokens, 1)
                blocks == Blocks(groups, flat, 1)
                ending == stressed_endings[i][1]
                first == Len(groups) - Len(ending)
            IN  \A j \in DOMAIN ending :
                    flat[blocks[first + j].from].word # flat[blocks[first + j].to].word
                        => ending[j] = RhymingPart(flat, blocks[first + j])

(***************************************************************************)
(* Claims about the rhyme analysis of a text (specification SpecScansion)  *)
(***************************************************************************)
RHYME_FIELDS ==
    {"structure", "rhyme", "ending", "ending_stress", "rhyme_type", "rhyme_relaxation"}

\* every line has the fields of one structure, with an empty rhyme_type and
\* no rhyme_relaxation exactly on the lines whose ending_stress is 0
StructureOnEveryLine(lines) ==
    \A i \in DOMAIN lines :
        /\ RHYME_FIELDS \subseteq DOMAIN lines[i]
        /\ lines[i].structure = lines[1].structure
        /\ lines[i].ending_stress = 0
              <=> (lines[i].rhyme_type = "" /\ lines[i].rhyme_relaxation = None)
        /\ \A j \in DOMAIN lines :
              (lines[i].ending_stress # 0 /\ lines[j].ending_stress # 0)
                  => /\ lines[i].rhyme_type = lines[j].rhyme_type
                     /\ lines[i].rhyme_relaxation = lines[j].rhyme_relaxation

StructureOnNoLine(lines) ==
    \A i \in DOMAIN lines : RHYME_FIELDS \cap DOMAIN lines[i] = {}

\* C14: get_scansion with rhyme analysis, on a text whose lines all have a
\* stressed group, returns lines that either all carry the fields of the
\* structure found, or none of them when no structure was found.
C14_StructureOnEveryLineOrNone ==
    (/\ scansion_result # None
     /\ The(scansion_result).rhyme_analysis
     /\ scansion_raised \notin {"ValueError: True is not in list",
                                "IndexError: list index out of range"})
        => /\ scansion_raised = ""
           /\ \/ StructureOnEveryLine(ScannedLines)
              \/ StructureOnNoLine(ScannedLines)

(***************************************************************************)
(* rhyme_codes_to_letters as a state machine: one call on the rhyme ids of *)
(* a poem (specification SpecLetters)                                      *)
(***************************************************************************)
\* the most distinct rhymes of a poem: one more than string.ascii_letters holds
MaxRhymes == 53

\* The rhyme ids of a poem as assign_letter_codes numbers them: n rhymes in
\* the order of their first line, each on `times` lines in a row, after
\* `unrhymed` lines without rhyme.
Couplets(n, times, unrhymed) ==
    [i \in 1..unrhymed |-> -1] \o [i \in 1..(n * times) |-> (i - 1) \div times]

InitLetters ==
    /\ letters_args \in {Some(Couplets(n, times, unrhymed)) :
                            n \in 0..MaxRhymes, times \in 1..2, unrhymed \in 0..1}
    /\ letters_result = None
    /\ TagIdle
    /\ pc = "rhyme_codes_to_letters"
    /\ RhymesIdle
    /\ SearchIdle
    /\ AnalyzeIdle
    /\ WordIdle
    /\ ScansionIdle

\* one call rhyme_codes_to_letters(rhymes)
RhymeCodesToLetters ==
    /\ pc = "rhyme_codes_to_letters"
    /\ letters_result' =
          Some(IF IndexError \in elements(sorted_rhymes_of(The(letters_args), "-"))
               THEN Raise("IndexError: string index out of range")
               ELSE Return(rhyme_codes_to_letters(The(letters_args), "-")))
    /\ pc' = "letters"
    /\ UNCHANGED <<letters_args, tag_vars, rhymes_vars, search_vars, analyze_vars,
                   word_vars, scansion_vars>>

NextLetters == RhymeCodesToLetters

SpecLetters == InitLetters /\ [][NextLetters]_vars

\* C21: rhyme_codes_to_letters returns a letter (or the unrhymed symbol) for
\* every line, whatever the number of distinct rhyme ids of the poem: it does
\* not fail when the rhymes outnumber the letters.
C21_LetterForEveryLine ==
    letters_result # None =>
        /\ The(letters_result).raised = ""
        /\ Len(The(letters_result).value) = Len(The(letters_args))
        /\ \A i \in DOMAIN The(letters_result).value :
              The(letters_result).value[i] \in elements(ascii_letters) \cup {"-"}

(***************************************************************************)
(* spacy_tag_to_dict as a state machine: one call on a tag (specification  *)
(* SpecTags).  A tag is given as its lexemes, names and the separators.    *)
(***************************************************************************)
\* the most lexemes of a tag
MaxTag == 5

TAG_NAMES == {"Definite", "Def"}
TAG_LEXEMES == TAG_NAMES \cup {"|", "="}

\* the texts of up to MaxTag lexemes (two names in a row would be one name)
TAG_STRINGS ==
    {tag \in Lists(TAG_LEXEMES, MaxTag) :
        \A i \in 1..(Len(tag) - 1) : ~(tag[i] \in TAG_NAMES /\ tag[i + 1] \in TAG_NAMES)}

InitTags ==
    /\ tag_args \in {Some(tag) : tag \in TAG_STRINGS}
    /\ tag_result = None
    /\ LettersIdle
    /\ pc = "spacy_tag_to_dict"
    /\ RhymesIdle
    /\ SearchIdle
    /\ AnalyzeIdle
    /\ WordIdle
    /\ ScansionIdle

\* one call spacy_tag_to_dict(tag)
SpacyTagToDict ==
    /\ pc = "spacy_tag_to_dict"
    /\ tag_result' =
          Some(IF spacy_tag_to_dict_raises(The(tag_args))
               THEN Raise("ValueError: dictionary update sequence element")
               ELSE Return(spacy_tag_to_dict(The(tag_args))))
    /\ pc' = "tags"
    /\ UNCHANGED <<tag_args, letters_vars, rhymes_vars, search_vars, analyze_vars,
                   word_vars, scansion_vars>>

NextTags == SpacyTagToDict

SpecTags == InitTags /\ [][NextTags]_vars

\* the "|"-separated parts of the tag, and the keys of those that hold a "="
TagParts == split(The(tag_args), "|")
KeysOfParts ==
    {name_of(split(TagParts[i], "=")[1]) :
        i \in {h \in DOMAIN TagParts : "=" \in elements(TagParts[h])}}

\* C22: spacy_tag_to_dict returns a mapping for every tag, also when only
\* some of its parts hold a "=" or when a part holds more than one; a part
\* without "=" gives no entry, and a tag without any "=" gives the empty
\* mapping.
C22_EveryTagParses ==
    tag_result # None =>
        /\ The(tag_result).raised = ""
        /\ DOMAIN The(tag_result).value \subseteq KeysOfParts
        /\ ("=" \notin elements(The(tag_args))) => The(tag_result).value = <<>>

(***************************************************************************)
(* Claims about the lines handed to the rhyme analysis (specification      *)
(* SpecScansion)                                                           *)
(***************************************************************************)
\* what get_stressed_endings (rhymes.py 41-51) and analyze_rhyme (rhymes.py
\* 252) read from a line
FieldsRead(line) ==
    /\ "phonological_groups" \in DOMAIN line
    /\ \A g \in DOMAIN line.phonological_groups :
          {"syllable", "is_stressed"} \subseteq DOMAIN line.phonological_groups[g]
    /\ "rhythm" \in DOMAIN line
    /\ "length" \in DOMAIN line.rhythm

\* C23: every line that get_scansion builds with get_rhythmical_pattern has
\* the fields the rhyme analysis reads (phonological_groups with is_stressed
\* on each group, and rhythm.length), so get_scansion with rhyme_analysis=True
\* does not end in a missing-field error.
C23_FieldsReadArePresent ==
    scansion_result # None =>
        /\ (scansion_raised = "") =>
              \A i \in DOMAIN ScannedLines : FieldsRead(ScannedLines[i])
        /\ The(scansion_result).rhyme_analysis =>
              scansion_raised \notin {"KeyError: 'length'", "KeyError: 'rhythm'"}

(***************************************************************************)
(* Claims about the letters of get_rhymes (specification Spec)             *)
(***************************************************************************)
\* the lines that carry the letter of line i
SameLetter(i) == {j \in LineSet : Letters[j] = Letters[i]}

\* C24: every rhyme letter in the output of get_rhymes, the unrhymed symbol
\* aside, is on at least two lines (and these lines share their ending
\* text), whatever the offset.
C24_NoLetterOnOneLineOnly ==
    Called =>
        \A i \in LineSet :
            Letters[i] # "-" =>
                \E j \in SameLetter(i) \ {i} :
                    The(out).unstressed_endings[j] = The(out).unstressed_endings[i]

(***************************************************************************)
(* Claims about the synalephas of a line (specification SpecScansion)      *)
(***************************************************************************)
\* the syllables m and m + 1 of the line are in one phonological group
InOneGroup(blocks, m) ==
    \E k \in DOMAIN blocks : blocks[k].from <= m /\ m + 1 <= blocks[k].to

\* C25: every synalepha flag that get_syllables set on the last syllable of a
\* word results in a merge: in the phonological groups of the line, that
\* syllable and the first syllable of the next word are in one group.
C25_EverySynalephaFlagMerges ==
    Scanned =>
        \A i \in DOMAIN ScannedLines :
            LET flat == FlatSyllables(ScannedLines[i].tokens, 1)
                blocks == Blocks(ScannedLines[i].phonological_groups, flat, 1)
            IN  \A m \in 1..(Len(flat) - 1) :
                    flat[m].has_synalepha => InOneGroup(blocks, m)

(***************************************************************************)
(* Claims about the lines of a text (specification SpecScansion)           *)
(***************************************************************************)
\* the lines that get_scansion builds from the tokens of the text
BuiltLines == seen_lines(The(scansion_args), <<>>, <<>>)

IsNewline(token) == token.pos_ = "SPACE" /\ "\n" \in elements(token.text)

\* C26: every line that get_scansion builds has at least one word token, so
\* that get_rhythmical_pattern finds a last word and the call does not fail
\* for want of one; and no newline token is part of a line.
C26_EveryLineHasAWord ==
    scansion_result # None =>
        /\ \A i \in DOMAIN BuiltLines :
              /\ \E j \in DOMAIN BuiltLines[i] : BuiltLines[i][j].is_alpha
              /\ \A j \in DOMAIN BuiltLines[i] : ~IsNewline(BuiltLines[i][j])
        /\ scansion_raised # "IndexError: list index out of range"

(***************************************************************************)
(* Claims about a line without stress (specification SpecAnalyze)          *)
(***************************************************************************)
\* the lines of the poem none of whose phonological groups is stressed
UnstressedLines ==
    {i \in DOMAIN The(analyze_args).lines :
        \A g \in DOMAIN The(analyze_args).lines[i].phonological_groups :
            ~The(analyze_args).lines[i].phonological_groups[g].is_stressed}

\* C27: when a line of the poem has no stressed group, get_stressed_endings
\* ends in an error and returns no ending for any line, and analyze_rhyme
\* ends in that error without a result; when every line has a stressed group
\* neither call ends in an error and there is an ending for every line.
C27_UnstressedLineFailsThePoem ==
    pc \in {"returned", "endings"} =>
        IF UnstressedLines # {}
        THEN /\ analyze_raised = "ValueError: True is not in list"
             /\ analyze_result = None
             /\ stressed_endings = <<>>
        ELSE /\ analyze_raised = ""
             /\ pc = "endings" =>
                   Len(stressed_endings) = Len(The(analyze_args).lines)

\* C27 witness: get_stressed_endings failed on a poem in which two lines with
\* the same ending come before the line without stress.
C27_Witness ==
    /\ pc = "endings"
    /\ analyze_raised = "ValueError: True is not in list"
    /\ stressed_endings = <<>>
    /\ \E i \in UnstressedLines :
          /\ i >= 3
          /\ {1, 2} \cap UnstressedLines = {}
          /\ The(analyze_args).lines[1] = The(analyze_args).lines[2]

\* the code string of line i, as line 100-109 of get_clean_codes compute it
CodeString(i) ==
    code_string(stressed_endings[i][1], The(call).assonance, The(call).relaxation)

\* the lines that carry a rhyme letter
Rhymed == {i \in LineSet : Letters[i] # "-"}

\* the letters in use before line i
LettersBefore(i) == {Letters[j] : j \in {h \in Rhymed : h < i}}

\* C28: in the output of get_rhymes (of a poem with at most 52 distinct
\* rhymes), two lines that both carry a rhyme letter carry the same letter
\* iff their code strings are equal, and a letter that first appears on a
\* line is the next unused letter of the alphabet.
C28_LettersFollowCodesInOrder ==
    (Called /\ Cardinality({Letters[i] : i \in Rhymed}) <= 52) =>
        /\ \A coded, other \in {<<i, CodeString(i)>> : i \in Rhymed} :
              Letters[coded[1]] = Letters[other[1]] <=> coded[2] = other[2]
        /\ \A i \in Rhymed :
              Letters[i] \notin LettersBefore(i)
                  => Letters[i] = ascii_letters[Cardinality(LettersBefore(i)) + 1]

\* C28 witness: a poem whose letters are a, b, a, b: the second letter is
\* introduced between two lines of the first.
C28_Witness ==
    /\ Called
    /\ \E i, j, k \in Rhymed :
          /\ i < j /\ j < k
          /\ Letters[i] = "a" /\ Letters[j] = "b" /\ Letters[k] = "a"
          /\ CodeString(i) = CodeString(k)
          /\ CodeString(i) # CodeString(j)
    /\ Cardinality({Letters[i] : i \in Rhymed}) = 2

(***************************************************************************)
(* Claims about two catalog entries (specification SpecSearch)             *)
(***************************************************************************)
\* the rank of the first entry with a name, for a rhyme type
RankOf(name, key) ==
    CHOOSE i \in Ranks :
        /\ STRUCTURES[i + 1].name = name /\ STRUCTURES[i + 1].key = key
        /\ \A j \in 0..(i - 1) :
              ~(STRUCTURES[j + 1].name = name /\ STRUCTURES[j + 1].key = key)

\* C29: a search for a consonant structure on a rhyme string that the pattern
\* of 'estrofa_sáfica' matches, with lengths that satisfy is_estrofa_safica or
\* is_estrofa_safica_unamuno, is accepted by that entry: the search returns
\* it, or an entry before it.
C29_SaficaAcceptsUnamuno ==
    (/\ Searched
     /\ The(search_args).structure_key = CONSONANT_RHYME
     /\ accepts(STRUCTURES[RankOf("estrofa_sáfica", CONSONANT_RHYME) + 1].structure,
                The(search_args).rhyme)
     /\ \/ is_estrofa_safica(The(search_args).rhythmical_lengths)
        \/ is_estrofa_safica_unamuno(The(search_args).rhythmical_lengths))
        => /\ Satisfies(RankOf("estrofa_sáfica", CONSONANT_RHYME))
           /\ search_result # None
           /\ The(search_result) <= RankOf("estrofa_sáfica", CONSONANT_RHYME)

\* the lengths are one or more whole repetitions of 5, 7, 5
Whole575(lengths) ==
    /\ Len(lengths) >= 3
    /\ Len(lengths) % 3 = 0
    /\ \A i \in DOMAIN lengths : lengths[i] = <<5, 7, 5>>[((i - 1) % 3) + 1]

\* C30: the search returns the 'haiku' entry only for a poem whose lengths are
\* one or more whole repetitions of 5, 7, 5.
C30_HaikuOnlyWholeRepetitions ==
    (/\ Searched
     /\ search_result # None
     /\ The(search_result) = RankOf("haiku", ASSONANT_RHYME))
        => Whole575(The(search_args).rhythmical_lengths)

====
